---- MODULE Spec2Model ----
(***************************************************************************)
(* A model of the MEMS accelerometer mask-design tool: the theory          *)
(* calculator (imu_theory.py), the layer registry (layer_definitions.py),  *)
(* the layout generator (accelerometer_layout.py) and the two pipelines    *)
(* that drive them (DesignWorker.run and create_consumer_accelerometer).   *)
(*                                                                         *)
(* Numbers.  The program computes in IEEE doubles.  Here a float is a pair *)
(* <<m, e>> that stands for m * 10^e, with m = 0 (zero) or a four-digit    *)
(* mantissa 1000..9999; every operation rounds its result to four digits.  *)
(* Only non-negative values occur (the physics has no subtraction).  The   *)
(* exponent is unbounded, so overflow to inf and underflow to 0 are not    *)
(* modelled.  A Python float division by 0.0 raises ZeroDivisionError; the *)
(* operators that divide by a value that can be zero say so explicitly.    *)
(*                                                                         *)
(* Layout coordinates are exact integers in units of 10^-4 micrometre.     *)
(***************************************************************************)
EXTENDS Integers, Sequences, FiniteSets, TLC

(***************************************************************************)
(* Floating point                                                          *)
(***************************************************************************)
RECURSIVE Pow10(_)
Pow10(k) == IF k = 0 THEN 1 ELSE 10 * Pow10(k - 1)

Zero == <<0, 0>>

\* The float nearest to n * 10^e, for an integer n >= 0 (round half up).
RECURSIVE Norm(_, _)
Norm(n, e) ==
  IF n = 0 THEN Zero
  ELSE IF n < 1000 THEN Norm(n * 10, e - 1)
  ELSE IF n <= 9999 THEN <<n, e>>
  ELSE IF n <= 99999 THEN Norm((n + 5) \div 10, e + 1)
  ELSE Norm(n \div 10, e + 1)

\* A float literal m * 10^e.
F(m, e) == Norm(m, e)

IsZero(a) == a[1] = 0

\* An operator's arguments are values, as in Python: each is evaluated once,
\* by binding it to the one element of a singleton set.
Product(a, b) == IF IsZero(a) \/ IsZero(b) THEN Zero ELSE Norm(a[1] * b[1], a[2] + b[2])

FMul(a, b) == CHOOSE r \in {Product(x, y) : x \in {a}, y \in {b}} : TRUE

Quotient(a, b) == IF IsZero(a) THEN Zero ELSE Norm((a[1] * 100000) \div b[1], a[2] - b[2] - 5)

\* a / b for b # 0.
FDiv(a, b) == CHOOSE r \in {Quotient(x, y) : x \in {a}, y \in {b}} : TRUE

Less(a, b) ==
  IF IsZero(b) THEN FALSE
  ELSE IF IsZero(a) THEN TRUE
  ELSE a[2] < b[2] \/ (a[2] = b[2] /\ a[1] < b[1])

FLt(a, b) == CHOOSE r \in {Less(x, y) : x \in {a}, y \in {b}} : TRUE

FGt(a, b) == FLt(b, a)

FLe(a, b) == ~FLt(b, a)

\* The largest r in lo..hi with r * r <= n.
RECURSIVE SqrtSearch(_, _, _)
SqrtSearch(n, lo, hi) ==
  IF lo >= hi THEN lo
  ELSE CHOOSE r \in
         {IF mid * mid <= n THEN SqrtSearch(n, mid, hi) ELSE SqrtSearch(n, lo, mid - 1) :
            mid \in {(lo + hi + 1) \div 2}} : TRUE

NearestRoot(n, r) == IF n - r * r > r THEN r + 1 ELSE r

\* The integer nearest to the square root of n, 0 <= n < 2 * 10^9.
ISqrt(n) == CHOOSE r \in {NearestRoot(x, y) : x \in {n}, y \in {SqrtSearch(n, 0, 46340)}} : TRUE

Root(a) ==
  IF IsZero(a) THEN Zero
  ELSE IF a[2] % 2 = 0 THEN Norm(ISqrt(a[1] * 10000), (a[2] - 4) \div 2)
  ELSE Norm(ISqrt(a[1] * 100000), (a[2] - 5) \div 2)

\* np.sqrt / math.sqrt of a non-negative float.
FSqrt(a) == CHOOSE r \in {Root(x) : x \in {a}} : TRUE

\* The largest r in lo..hi with r^3 <= n.
RECURSIVE CbrtSearch(_, _, _)
CbrtSearch(n, lo, hi) ==
  IF lo >= hi THEN lo
  ELSE CHOOSE r \in
         {IF mid * mid * mid <= n THEN CbrtSearch(n, mid, hi) ELSE CbrtSearch(n, lo, mid - 1) :
            mid \in {(lo + hi + 1) \div 2}} : TRUE

\* r refined by one linear step to five digits: 100 * (r + (n - r^3) / (3 r^2)).
RefinedCubeRoot(n, r) == r * 100 + ((n - r * r * r) * 100) \div (3 * r * r)

\* The cube root of a positive float, from the integer cube root of the
\* mantissa scaled to 10^6..10^9.
CubeRoot(a) ==
  LET j == 3 + ((a[2] - 3) % 3)
      n == a[1] * Pow10(j)
  IN  Norm((CHOOSE r \in {RefinedCubeRoot(x, y) : x \in {n}, y \in {CbrtSearch(n, 0, 1290)}} :
              TRUE),
           ((a[2] - j) \div 3) - 2)

FCbrt(a) == CHOOSE r \in {CubeRoot(x) : x \in {a}} : TRUE

SquareOf(c) == Product(c, c)

\* x ** (1/1.5) for a non-negative float, as the square of its cube root.
FPow23(a) == IF IsZero(a) THEN Zero ELSE CHOOSE r \in {SquareOf(x) : x \in {FCbrt(a)}} : TRUE

Clamp(x, lo, hi) == IF Less(x, lo) THEN lo ELSE IF Less(hi, x) THEN hi ELSE x

\* np.clip(x, lo, hi).
Clip(x, lo, hi) == CHOOSE r \in {Clamp(v, lo, hi) : v \in {x}} : TRUE

FSquare(a) == CHOOSE r \in {SquareOf(x) : x \in {a}} : TRUE

CubeOf(c) == Product(Product(c, c), c)

FCube(a) == CHOOSE r \in {CubeOf(x) : x \in {a}} : TRUE

FInt(n) == Norm(n, 0)

(***************************************************************************)
(* imu_theory.py: MaterialProperties and the physics functions             *)
(***************************************************************************)
youngs_modulus == F(1690, -1)
density == F(2330, 0)
thickness == F(5000, -2)
air_viscosity == F(1810, -8)
epsilon_0 == F(8850, -15)
k_b == F(1380, -26)
Micro == F(1000, -9)
Giga == F(1000, 6)
TwoPi == FMul(FInt(2), F(3142, -3))

\* A variant of SecondMoment for a beam that bends in the plane of the
\* wafer: I = spring_thickness_m * spring_width_m**3 / 12.
SecondMomentCubicInWidth(spring_width_m, spring_thickness_m) ==
  FDiv(FMul(spring_thickness_m, FCube(spring_width_m)), FInt(12))

\* I = spring_width_m * spring_thickness_m**3 / 12.
SecondMoment(spring_width_m, spring_thickness_m) ==
  FDiv(FMul(spring_width_m, FCube(spring_thickness_m)), FInt(12))

\* k_total = 4 * (E * 1e9 * I / spring_length_m**3).
\* Raises ZeroDivisionError when spring_length is 0 (not modelled: every
\* caller passes a positive length).
StiffnessTotal(spring_length, spring_width, spring_thickness) ==
  FMul(FInt(4),
       FDiv(FMul(FMul(youngs_modulus, Giga),
                 SecondMoment(FMul(spring_width, Micro), FMul(spring_thickness, Micro))),
            FCube(FMul(spring_length, Micro))))

\* mass = density * proof_mass_size_m**2 * spring_thickness_m.
ProofMass(proof_mass_size, spring_thickness) ==
  FMul(FMul(density, FSquare(FMul(proof_mass_size, Micro))), FMul(spring_thickness, Micro))

calculate_natural_frequency(proof_mass_size, spring_length, spring_width, spring_thickness) ==
  FMul(FDiv(FInt(1), TwoPi),
       FSqrt(FDiv(StiffnessTotal(spring_length, spring_width, spring_thickness),
                  ProofMass(proof_mass_size, spring_thickness))))

calculate_sensitivity(proof_mass_size, spring_length, spring_width, gap, voltage) ==
  FMul(FDiv(FMul(FMul(epsilon_0, FSquare(FMul(proof_mass_size, Micro))), voltage),
            FMul(FSquare(FMul(gap, Micro)),
                 StiffnessTotal(spring_length, spring_width, thickness))),
       FInt(1000))

\* The noise density from the mass and the angular frequency omega_0, Q = 100.
NoiseDensity(mass, omega_0, temperature) ==
  FMul(FDiv(FMul(FSqrt(FDiv(FMul(FMul(FMul(FInt(4), k_b), temperature), FInt(100)),
                            FMul(mass, FCube(omega_0)))),
                 FSquare(omega_0)),
            F(9810, -3)),
       F(1000, 3))

calculate_noise(proof_mass_size, spring_length, spring_width, gap, temperature) ==
  CHOOSE r \in
    {NoiseDensity(mass, omega_0, temperature) :
       mass \in {ProofMass(proof_mass_size, thickness)},
       omega_0 \in {FMul(TwoPi, calculate_natural_frequency(proof_mass_size, spring_length,
                                                            spring_width, thickness))}} : TRUE

calculate_bandwidth(proof_mass_size, spring_length, spring_width, damping_ratio) ==
  FDiv(calculate_natural_frequency(proof_mass_size, spring_length, spring_width, thickness),
       FMul(TwoPi, damping_ratio))

calculate_pull_in_voltage(proof_mass_size, spring_length, spring_width, gap) ==
  FSqrt(FDiv(FMul(FMul(FInt(8), StiffnessTotal(spring_length, spring_width, thickness)),
                  FCube(FMul(gap, Micro))),
             FMul(FMul(FInt(27), epsilon_0), FSquare(FMul(proof_mass_size, Micro)))))

(***************************************************************************)
(* imu_theory.py: calculate_mask_parameters                                *)
(***************************************************************************)
One == FInt(1)
Iterations == 10
InitialGeometry ==
  [proof_mass_size |-> F(1000, 0), spring_length |-> F(3000, -1), spring_width |-> F(2000, -2)]
InitialGap == F(3000, -3)
InitialVoltage == F(5000, -3)
DefaultTemperature == FInt(300)
DefaultDampingRatio == F(7000, -4)

\* The np.clip calls that end each pass of the loop.
ClampGeometry(g) ==
  [proof_mass_size |-> Clip(g.proof_mass_size, F(2000, -1), F(2000, 0)),
   spring_width |-> Clip(g.spring_width, F(5000, -3), F(5000, -2)),
   spring_length |-> Clip(g.spring_length, F(1000, -1), F(5000, -1))]

\* x *= np.sqrt(target / current), skipped when current is 0.
ScaleByRoot(x, target, current) ==
  IF ~IsZero(current) THEN FMul(x, FSqrt(FDiv(target, current))) ELSE x

\* The two branches on bandwidth_ratio.  raised: 1/bandwidth_ratio divides a
\* Python float by 0.0, a ZeroDivisionError.
AdjustLength(spring_length, bandwidth_ratio) ==
  IF FGt(bandwidth_ratio, One)
  THEN [raised |-> FALSE, spring_length |-> FDiv(spring_length, FPow23(bandwidth_ratio))]
  ELSE IF FLt(bandwidth_ratio, One)
  THEN IF IsZero(bandwidth_ratio)
       THEN [raised |-> TRUE, spring_length |-> spring_length]
       ELSE [raised |-> FALSE,
             spring_length |-> FMul(spring_length, FPow23(FDiv(One, bandwidth_ratio)))]
  ELSE [raised |-> FALSE, spring_length |-> spring_length]

\* The bandwidth adjustment, skipped when current_bandwidth is 0.
ScaleLength(spring_length, target, current_bandwidth) ==
  IF ~IsZero(current_bandwidth)
  THEN CHOOSE r \in
         {AdjustLength(spring_length, bandwidth_ratio) :
            bandwidth_ratio \in {FDiv(target, current_bandwidth)}} : TRUE
  ELSE [raised |-> FALSE, spring_length |-> spring_length]

\* The adjustments and clips of one pass, from the pass's current values.
Adjusted(g, performance_params, current_sensitivity, current_noise, length_step) ==
  [raised |-> length_step.raised,
   geometry |-> ClampGeometry(
     [proof_mass_size |->
        ScaleByRoot(g.proof_mass_size, performance_params.sensitivity, current_sensitivity),
      spring_width |->
        ScaleByRoot(g.spring_width, performance_params.noise_density, current_noise),
      spring_length |-> length_step.spring_length])]

\* A faulty variant of SynthesisPass: the pass computes the current noise
\* and bandwidth after it has updated proof_mass_size, from the new size.
SynthesisPassSequential(g, performance_params) ==
  CHOOSE pass \in
    {Adjusted(g, performance_params, current_sensitivity,
              calculate_noise(ScaleByRoot(g.proof_mass_size, performance_params.sensitivity,
                                          current_sensitivity),
                              g.spring_length, g.spring_width, InitialGap,
                              DefaultTemperature),
              ScaleLength(g.spring_length, performance_params.bandwidth,
                          calculate_bandwidth(
                            ScaleByRoot(g.proof_mass_size, performance_params.sensitivity,
                                        current_sensitivity),
                            g.spring_length, g.spring_width, DefaultDampingRatio))) :
       current_sensitivity \in
         {calculate_sensitivity(g.proof_mass_size, g.spring_length, g.spring_width,
                                InitialGap, InitialVoltage)}} : TRUE

\* One pass of the loop body.  All three current values are computed from
\* the geometry g the pass starts with.
SynthesisPass(g, performance_params) ==
  CHOOSE pass \in
    {Adjusted(g, performance_params, current_sensitivity, current_noise, length_step) :
       current_sensitivity \in
         {calculate_sensitivity(g.proof_mass_size, g.spring_length, g.spring_width,
                                InitialGap, InitialVoltage)},
       current_noise \in
         {calculate_noise(g.proof_mass_size, g.spring_length, g.spring_width,
                          InitialGap, DefaultTemperature)},
       length_step \in
         {ScaleLength(g.spring_length, performance_params.bandwidth,
                      calculate_bandwidth(g.proof_mass_size, g.spring_length,
                                          g.spring_width, DefaultDampingRatio))}} : TRUE

\* The loop: the geometry after passes i..Iterations, or the first raise.
RECURSIVE SynthesisLoop(_, _, _)
SynthesisLoop(i, g, performance_params) ==
  IF i > Iterations THEN [raised |-> FALSE, geometry |-> g]
  ELSE CHOOSE end \in
         {IF step.raised THEN [raised |-> TRUE, geometry |-> g]
          ELSE SynthesisLoop(i + 1, step.geometry, performance_params) :
            step \in {SynthesisPass(g, performance_params)}} : TRUE

\* A faulty variant of MaskParameters: anchor_size and electrode_size are
\* derived from the initial proof_mass_size, not the final one.
MaskParametersFromInitialSize(g) ==
  [proof_mass_size |-> g.proof_mass_size,
   spring_length |-> g.spring_length,
   spring_width |-> g.spring_width,
   anchor_size |-> FMul(InitialGeometry.proof_mass_size, F(2000, -4)),
   electrode_size |-> FMul(InitialGeometry.proof_mass_size, F(8000, -4)),
   gap |-> InitialGap,
   trench_width |-> F(5000, -3),
   via_size |-> F(1000, -2),
   voltage |-> InitialVoltage]

\* The dictionary the function returns from the final geometry.
MaskParameters(g) ==
  [proof_mass_size |-> g.proof_mass_size,
   spring_length |-> g.spring_length,
   spring_width |-> g.spring_width,
   anchor_size |-> FMul(g.proof_mass_size, F(2000, -4)),
   electrode_size |-> FMul(g.proof_mass_size, F(8000, -4)),
   gap |-> InitialGap,
   trench_width |-> F(5000, -3),
   via_size |-> F(1000, -2),
   voltage |-> InitialVoltage]

\* No dictionary: the value of a mask_params that was never assigned.
NoMask ==
  [proof_mass_size |-> Zero, spring_length |-> Zero, spring_width |-> Zero,
   anchor_size |-> Zero, electrode_size |-> Zero, gap |-> Zero,
   trench_width |-> Zero, via_size |-> Zero, voltage |-> Zero]

\* The outcome of the call from the outcome of its loop.
Returned(end) ==
  IF end.raised THEN [raised |-> TRUE, mask_params |-> NoMask]
  ELSE [raised |-> FALSE, mask_params |-> MaskParameters(end.geometry)]

\* raised: the call ends in ZeroDivisionError and returns nothing.
calculate_mask_parameters(performance_params) ==
  CHOOSE r \in
    {Returned(end) : end \in {SynthesisLoop(1, InitialGeometry, performance_params)}} : TRUE

(***************************************************************************)
(* imu_theory.py: validate_design                                          *)
(***************************************************************************)
min_line_width == F(2000, -3)
min_spacing == F(3000, -3)
\* A faulty safety factor, which the properties at the end of the module
\* must tell from SafetyFactor.
SafetyFactorRaised == F(1600, -3)

SafetyFactor == F(1500, -3)

\* Faulty variants of the third check, which the properties at the end of
\* the module must tell from PullInCheck: the comparison turned round, and
\* the default operating voltage in place of the dictionary's.
PullInCheckReversed(voltage, pull_in_voltage) ==
  IF FGt(pull_in_voltage, FMul(voltage, SafetyFactor))
  THEN [ok |-> FALSE, message |-> "voltage too close to pull-in voltage"]
  ELSE [ok |-> TRUE, message |-> "design validated"]

PullInCheckAtDefaultVoltage(voltage, pull_in_voltage) ==
  IF FLt(pull_in_voltage, FMul(InitialVoltage, SafetyFactor))
  THEN [ok |-> FALSE, message |-> "voltage too close to pull-in voltage"]
  ELSE [ok |-> TRUE, message |-> "design validated"]

\* The third check, on the pull-in voltage of the geometry.
PullInCheck(voltage, pull_in_voltage) ==
  IF FLt(pull_in_voltage, FMul(voltage, SafetyFactor))
  THEN [ok |-> FALSE, message |-> "voltage too close to pull-in voltage"]
  ELSE [ok |-> TRUE, message |-> "design validated"]

\* A faulty variant of validate_design: the minimum-spacing check is missing.
ValidateWithoutSpacingCheck(params) ==
  IF FLt(params.spring_width, min_line_width)
  THEN [ok |-> FALSE, message |-> "spring width below minimum line width"]
  ELSE CHOOSE r \in
         {PullInCheck(params.voltage, pull_in_voltage) :
            pull_in_voltage \in
              {calculate_pull_in_voltage(params.proof_mass_size, params.spring_length,
                                         params.spring_width, params.gap)}} : TRUE

validate_design(params) ==
  IF FLt(params.spring_width, min_line_width)
  THEN [ok |-> FALSE, message |-> "spring width below minimum line width"]
  ELSE IF FLt(params.gap, min_spacing)
  THEN [ok |-> FALSE, message |-> "gap below minimum spacing"]
  ELSE CHOOSE r \in
         {PullInCheck(params.voltage, pull_in_voltage) :
            pull_in_voltage \in
              {calculate_pull_in_voltage(params.proof_mass_size, params.spring_length,
                                         params.spring_width, params.gap)}} : TRUE

(***************************************************************************)
(* layer_definitions.py: MEMSLayerDefinitions                              *)
(***************************************************************************)
\* Length units per micrometre of the layout's integer coordinates.
Um(n) == n * 10000

\* A float as a length in layout units (exact for exponents >= -4).
Fx(a) == IF a[2] >= -4 THEN a[1] * Pow10(a[2] + 4) ELSE a[1] \div Pow10(-4 - a[2])

LayerInfo(n, d, w, s) ==
  [layer_number |-> n, datatype |-> d, min_width |-> Um(w), min_spacing |-> Um(s)]

\* self.layers (description and color left out).
layers ==
  [substrate |-> LayerInfo(1, 0, 2, 3),
   proof_mass |-> LayerInfo(2, 0, 5, 3),
   spring |-> LayerInfo(3, 0, 2, 3),
   anchor |-> LayerInfo(4, 0, 10, 5),
   electrode |-> LayerInfo(5, 0, 5, 3),
   backside_etch |-> LayerInfo(6, 0, 20, 10),
   frontside_etch |-> LayerInfo(7, 0, 5, 3),
   release_etch |-> LayerInfo(8, 0, 10, 5),
   trench |-> LayerInfo(9, 0, 5, 3),
   via |-> LayerInfo(10, 0, 10, 5),
   metal1 |-> LayerInfo(11, 0, 3, 3),
   metal2 |-> LayerInfo(12, 0, 3, 3),
   metal3 |-> LayerInfo(13, 0, 3, 3),
   bond_pad |-> LayerInfo(14, 0, 100, 50),
   routing |-> LayerInfo(15, 0, 5, 5),
   alignment |-> LayerInfo(16, 0, 50, 20),
   dicing |-> LayerInfo(17, 0, 100, 50),
   seal_ring |-> LayerInfo(18, 0, 20, 10),
   guard_ring |-> LayerInfo(19, 0, 10, 5),
   text |-> LayerInfo(20, 0, 10, 5)]

\* The instance attributes of the constructed objects: calculators[c] holds
\* the self.silicon and self.air_viscosity of calculator c, layers the
\* self.layers of the layer registry.
VARIABLE objects

\* The objects after construction: the calculators named in instances
\* (IMUTheoryCalculator.__init__) and the layer table
\* (MEMSLayerDefinitions.__init__).
Constructed(instances) ==
  [calculators |->
     [c \in instances |->
        [silicon |-> [youngs_modulus |-> youngs_modulus, density |-> density,
                      thickness |-> thickness],
         air_viscosity |-> air_viscosity]],
   layers |-> layers]

\* A variant of Subscript that answers a name the table does not hold with
\* a default descriptor (self.layers.get(layer_name, default)).
SubscriptWithDefault(layer_name) ==
  IF layer_name \in DOMAIN objects.layers
  THEN [raised |-> FALSE, value |-> objects.layers[layer_name]]
  ELSE [raised |-> FALSE, value |-> LayerInfo(0, 0, 0, 0)]

\* self.layers[layer_name]: a dict subscript raises KeyError, a LookupError,
\* for a key the dict does not hold.
Subscript(layer_name) ==
  IF layer_name \in DOMAIN objects.layers
  THEN [raised |-> FALSE, value |-> objects.layers[layer_name]]
  ELSE [raised |-> TRUE, value |-> "KeyError"]

\* The values the four methods return when the subscript does not raise.
get_layer_info(layer_name) == Subscript(layer_name).value

get_layer_number(layer_name) == Subscript(layer_name).value.layer_number

get_layer_tuple(layer_name) ==
  LET layer_info == Subscript(layer_name).value
  IN  <<layer_info.layer_number, layer_info.datatype>>

validate_dimensions(layer_name, width, spacing) ==
  LET layer_info == Subscript(layer_name).value
  IN  IF width < layer_info.min_width THEN FALSE
      ELSE IF spacing > 0 /\ spacing < layer_info.min_spacing THEN FALSE
      ELSE TRUE

\* A dict as a caller holds it: own says that it is the registry's own
\* self.layers and not a copy.
Dict(own, items) == [held |-> TRUE, own |-> own, items |-> items]

\* A variant of get_all_layers that returns self.layers itself.
GetAllLayersShared == Dict(TRUE, objects.layers)

\* return self.layers.copy()
get_all_layers == Dict(FALSE, objects.layers)

\* The keys of self.layers in the order __init__ inserts them.
LayerOrder ==
  <<"substrate", "proof_mass", "spring", "anchor", "electrode", "backside_etch",
    "frontside_etch", "release_etch", "trench", "via", "metal1", "metal2", "metal3",
    "bond_pad", "routing", "alignment", "dicing", "seal_ring", "guard_ring", "text">>

\* return list(self.layers.keys())
get_layer_names == SelectSeq(LayerOrder, LAMBDA name : name \in DOMAIN objects.layers)

(***************************************************************************)
(* accelerometer_layout.py: AccelerometerLayoutGenerator                   *)
(*                                                                         *)
(* A shape is what one c.add_ref adds: its sub-structure kind, its layer   *)
(* tuple and its box <<x0, y0>>..<<x1, y1>>.  gf.components.rectangle puts *)
(* the lower-left corner of the rectangle at the origin, and move shifts   *)
(* it.  A ring (gf.boolean A-B) is its outer box with the inner box as     *)
(* hole.  A text label is kept as the point its bounding box is centred    *)
(* on; its outline belongs to the geometry library.                        *)
(***************************************************************************)
NoHole == <<>>

Rectangle(kind, layer, x, y, width, height) ==
  [kind |-> kind, layer |-> layer, x0 |-> x, y0 |-> y, x1 |-> x + width, y1 |-> y + height,
   hole |-> NoHole]

\* Outer and inner square of the given sides, both centred on center.
Ring(kind, layer, center, outer_dim, inner_dim) ==
  [kind |-> kind, layer |-> layer,
   x0 |-> center[1] - outer_dim \div 2, y0 |-> center[2] - outer_dim \div 2,
   x1 |-> center[1] - outer_dim \div 2 + outer_dim,
   y1 |-> center[2] - outer_dim \div 2 + outer_dim,
   hole |-> <<center[1] - inner_dim \div 2, center[2] - inner_dim \div 2,
              center[1] - inner_dim \div 2 + inner_dim,
              center[2] - inner_dim \div 2 + inner_dim>>]

Max(a, b) == IF a >= b THEN a ELSE b

Min(a, b) == IF a <= b THEN a ELSE b

holes_per_row == 3

create_proof_mass(params, center) ==
  LET size == Fx(params.proof_mass_size)
      layer == get_layer_tuple("proof_mass")
      hole_size == size \div 10
      hole_spacing == (size * 2) \div 10
      Hole(k) ==
        LET i == (k - 1) \div holes_per_row
            j == (k - 1) % holes_per_row
        IN  Rectangle("hole", layer, center[1] + (i - 1) * hole_spacing,
                      center[2] + (j - 1) * hole_spacing, hole_size, hole_size)
  IN  <<Rectangle("proof_mass", layer, center[1], center[2], size, size)>>
        \o [k \in 1..(holes_per_row * holes_per_row) |-> Hole(k)]

create_springs(params, proof_mass_center) ==
  LET size == Fx(params.proof_mass_size)
      spring_length == Fx(params.spring_length)
      spring_width == Fx(params.spring_width)
      layer == get_layer_tuple("spring")
      spring_positions == <<<<-spring_length, 0>>, <<size, 0>>, <<0, -spring_length>>, <<0, size>>>>
      Spring(i) ==
        LET dx == spring_positions[i][1]
            dy == spring_positions[i][2]
        IN  IF i <= 2
            THEN Rectangle("spring", layer, proof_mass_center[1] + dx,
                           proof_mass_center[2] + dy - spring_width \div 2,
                           spring_length, spring_width)
            ELSE Rectangle("spring", layer, proof_mass_center[1] + dx - spring_width \div 2,
                           proof_mass_center[2] + dy, spring_width, spring_length)
  IN  [i \in 1..4 |-> Spring(i)]

\* The second assignment of anchor_positions (the first is overwritten).
create_anchors(params, proof_mass_center) ==
  LET size == Fx(params.proof_mass_size)
      anchor_size == Fx(params.anchor_size)
      spring_length == Fx(params.spring_length)
      layer == get_layer_tuple("anchor")
      anchor_positions ==
        <<<<proof_mass_center[1] - spring_length - anchor_size, proof_mass_center[2] - anchor_size>>,
          <<proof_mass_center[1] + size + spring_length, proof_mass_center[2] - anchor_size>>,
          <<proof_mass_center[1] - spring_length - anchor_size, proof_mass_center[2] + size>>,
          <<proof_mass_center[1] + size + spring_length, proof_mass_center[2] + size>>>>
  IN  [i \in 1..4 |-> Rectangle("anchor", layer, anchor_positions[i][1], anchor_positions[i][2],
                                anchor_size, anchor_size)]

\* A faulty variant of create_electrodes: the plates are placed as if
\* proof_mass_center were the centre of the proof mass.
ElectrodesAboutTheOrigin(params, proof_mass_center) ==
  [i \in 1..4 |->
     Rectangle("electrode", get_layer_tuple("electrode"),
               proof_mass_center[1]
                 + (IF i = 1 THEN -Fx(params.gap) - Fx(params.electrode_size)
                    ELSE IF i = 2 THEN Fx(params.proof_mass_size) + Fx(params.gap)
                    ELSE -(Fx(params.electrode_size) \div 2)),
               proof_mass_center[2]
                 + (IF i = 3 THEN -Fx(params.gap) - Fx(params.electrode_size)
                    ELSE IF i = 4 THEN Fx(params.proof_mass_size) + Fx(params.gap)
                    ELSE -(Fx(params.electrode_size) \div 2)),
               Fx(params.electrode_size), Fx(params.electrode_size))]

create_electrodes(params, proof_mass_center) ==
  LET size == Fx(params.proof_mass_size)
      electrode_size == Fx(params.electrode_size)
      gap == Fx(params.gap)
      layer == get_layer_tuple("electrode")
      electrode_positions ==
        <<<<proof_mass_center[1] - gap - electrode_size,
            proof_mass_center[2] + size \div 2 - electrode_size \div 2>>,
          <<proof_mass_center[1] + size + gap,
            proof_mass_center[2] + size \div 2 - electrode_size \div 2>>,
          <<proof_mass_center[1] + size \div 2 - electrode_size \div 2,
            proof_mass_center[2] - gap - electrode_size>>,
          <<proof_mass_center[1] + size \div 2 - electrode_size \div 2,
            proof_mass_center[2] + size + gap>>>>
  IN  [i \in 1..4 |-> Rectangle("electrode", layer, electrode_positions[i][1],
                                electrode_positions[i][2], electrode_size, electrode_size)]

create_metal_routing(params, proof_mass_center) ==
  LET size == Fx(params.proof_mass_size)
      spring_length == Fx(params.spring_length)
      bond_pad_layer == get_layer_tuple("bond_pad")
      routing_layer == get_layer_tuple("routing")
      bond_pad_size == Um(200)
      routing_width == Um(20)
      pad_positions ==
        <<<<proof_mass_center[1] - spring_length - Um(300) - bond_pad_size,
            proof_mass_center[2] - Um(300) - bond_pad_size>>,
          <<proof_mass_center[1] + size + spring_length + Um(100),
            proof_mass_center[2] - Um(300) - bond_pad_size>>,
          <<proof_mass_center[1] - spring_length - Um(300) - bond_pad_size,
            proof_mass_center[2] + size + Um(100)>>,
          <<proof_mass_center[1] + size + spring_length + Um(100),
            proof_mass_center[2] + size + Um(100)>>>>
      Pad(i) == Rectangle("bond_pad", bond_pad_layer, pad_positions[i][1], pad_positions[i][2],
                          bond_pad_size, bond_pad_size)
      Route(i) ==
        LET pad_x == pad_positions[i][1]
            pad_y == pad_positions[i][2]
            y == pad_y + bond_pad_size \div 2 - routing_width \div 2
        IN  IF i = 1 \/ i = 3
            THEN Rectangle("routing", routing_layer, pad_x + bond_pad_size, y,
                           Um(300), routing_width)
            ELSE Rectangle("routing", routing_layer, pad_x - Um(300), y,
                           Um(300), routing_width)
  IN  [k \in 1..8 |-> IF k % 2 = 1 THEN Pad((k + 1) \div 2) ELSE Route(k \div 2)]

\* A faulty variant of create_vias: the rectangle is not moved back by
\* via_size/2, so its lower-left corner, not its centre, is on the anchor's
\* centre.
ViasFromAnchorCentres(params, proof_mass_center) ==
  [i \in 1..4 |->
     Rectangle("via", get_layer_tuple("via"),
               proof_mass_center[1]
                 + (IF i \in {1, 3}
                    THEN -Fx(params.spring_length) - Fx(params.anchor_size) \div 2
                    ELSE Fx(params.proof_mass_size) + Fx(params.spring_length)
                           + Fx(params.anchor_size) \div 2),
               proof_mass_center[2]
                 + (IF i \in {1, 2} THEN -(Fx(params.anchor_size) \div 2)
                    ELSE Fx(params.proof_mass_size) + Fx(params.anchor_size) \div 2),
               Fx(params.via_size), Fx(params.via_size))]

create_vias(params, proof_mass_center) ==
  LET via_size == Fx(params.via_size)
      layer_tuple == get_layer_tuple("via")
      anchor_size == Fx(params.anchor_size)
      spring_length == Fx(params.spring_length)
      size == Fx(params.proof_mass_size)
      via_positions_center ==
        <<<<proof_mass_center[1] - spring_length - anchor_size \div 2,
            proof_mass_center[2] - anchor_size \div 2>>,
          <<proof_mass_center[1] + size + spring_length + anchor_size \div 2,
            proof_mass_center[2] - anchor_size \div 2>>,
          <<proof_mass_center[1] - spring_length - anchor_size \div 2,
            proof_mass_center[2] + size + anchor_size \div 2>>,
          <<proof_mass_center[1] + size + spring_length + anchor_size \div 2,
            proof_mass_center[2] + size + anchor_size \div 2>>>>
  IN  [i \in 1..4 |-> Rectangle("via", layer_tuple,
                                via_positions_center[i][1] - via_size \div 2,
                                via_positions_center[i][2] - via_size \div 2,
                                via_size, via_size)]

create_alignment_marks(params, proof_mass_center) ==
  LET size == Fx(params.proof_mass_size)
      spring_length == Fx(params.spring_length)
      layer_tuple == get_layer_tuple("alignment")
      mark_size == Um(100)
      mark_line_width == Um(20)
      mark_positions ==
        <<<<proof_mass_center[1] - spring_length - Um(400) - mark_size,
            proof_mass_center[2] - Um(400) - mark_size>>,
          <<proof_mass_center[1] + size + spring_length + Um(200),
            proof_mass_center[2] - Um(400) - mark_size>>,
          <<proof_mass_center[1] - spring_length - Um(400) - mark_size,
            proof_mass_center[2] + size + Um(200)>>,
          <<proof_mass_center[1] + size + spring_length + Um(200),
            proof_mass_center[2] + size + Um(200)>>>>
      MarkH(i) == Rectangle("alignment", layer_tuple, mark_positions[i][1],
                            mark_positions[i][2] + mark_size \div 2 - mark_line_width \div 2,
                            mark_size, mark_line_width)
      MarkV(i) == Rectangle("alignment", layer_tuple,
                            mark_positions[i][1] + mark_size \div 2 - mark_line_width \div 2,
                            mark_positions[i][2], mark_line_width, mark_size)
  IN  [k \in 1..8 |-> IF k % 2 = 1 THEN MarkH((k + 1) \div 2) ELSE MarkV(k \div 2)]

\* max(size/2 + spring_length + 300 + bond_pad_size/2 + 300, 1000), written
\* out three times in the source (dicing lines, seal ring, guard ring).
chip_edge_distance_from_center(params) ==
  LET size == Fx(params.proof_mass_size)
      spring_length == Fx(params.spring_length)
      bond_pad_size == Um(200)
  IN  Max(size \div 2 + spring_length + Um(300) + bond_pad_size \div 2 + Um(300), Um(1000))

create_dicing_lines(params, proof_mass_center) ==
  LET layer_tuple == get_layer_tuple("dicing")
      chip_size_full == chip_edge_distance_from_center(params) * 2
      line_thickness == Um(50)
  IN  <<Rectangle("dicing", layer_tuple, proof_mass_center[1] - chip_size_full \div 2,
                  proof_mass_center[2] + chip_size_full \div 2 - line_thickness \div 2,
                  chip_size_full, line_thickness),
        Rectangle("dicing", layer_tuple, proof_mass_center[1] - chip_size_full \div 2,
                  proof_mass_center[2] - chip_size_full \div 2 - line_thickness \div 2,
                  chip_size_full, line_thickness),
        Rectangle("dicing", layer_tuple,
                  proof_mass_center[1] - chip_size_full \div 2 - line_thickness \div 2,
                  proof_mass_center[2] - chip_size_full \div 2,
                  line_thickness, chip_size_full),
        Rectangle("dicing", layer_tuple,
                  proof_mass_center[1] + chip_size_full \div 2 - line_thickness \div 2,
                  proof_mass_center[2] - chip_size_full \div 2,
                  line_thickness, chip_size_full)>>

\* A faulty variant of create_seal_ring: the ring is tagged with the
\* guard ring's layer.
SealRingOnGuardLayer(params, proof_mass_center) ==
  <<Ring("seal_ring", get_layer_tuple("guard_ring"), proof_mass_center,
         chip_edge_distance_from_center(params) * 2 - Um(200),
         chip_edge_distance_from_center(params) * 2 - Um(400))>>

create_seal_ring(params, proof_mass_center) ==
  LET layer_tuple == get_layer_tuple("seal_ring")
      ring_width == Um(100)
      outer_ring_dim == chip_edge_distance_from_center(params) * 2 - Um(200)
      inner_ring_dim == outer_ring_dim - 2 * ring_width
  IN  <<Ring("seal_ring", layer_tuple, proof_mass_center, outer_ring_dim, inner_ring_dim)>>

create_guard_ring(params, proof_mass_center) ==
  LET layer_tuple == get_layer_tuple("guard_ring")
      guard_width == Um(50)
      seal_ring_outer_edge_from_center == chip_edge_distance_from_center(params) - Um(100)
      guard_outer_dim == (seal_ring_outer_edge_from_center - Um(50)) * 2
      inner_guard_dim == guard_outer_dim - 2 * guard_width
  IN  <<Ring("guard_ring", layer_tuple, proof_mass_center, guard_outer_dim, inner_guard_dim)>>

\* A faulty variant of create_text_labels: the third label is missing.
TwoTextLabels(params, proof_mass_center) ==
  [i \in 1..2 |->
     Rectangle("text", get_layer_tuple("text"), proof_mass_center[1],
               proof_mass_center[2] + Fx(params.proof_mass_size) + Fx(params.spring_length)
                 + i * Um(50) + Um(50), 0, 0)]

create_text_labels(params, proof_mass_center) ==
  LET size == Fx(params.proof_mass_size)
      spring_length == Fx(params.spring_length)
      layer_tuple == get_layer_tuple("text")
      offsets == <<Um(100), Um(150), Um(200)>>
      Label(i) == Rectangle("text", layer_tuple, proof_mass_center[1],
                            proof_mass_center[2] + size + spring_length + offsets[i], 0, 0)
  IN  [i \in 1..3 |-> Label(i)]

\* The root component: the shapes in the order they are added.
generate_accelerometer_layout(params) ==
  LET center == <<0, 0>>
  IN  create_proof_mass(params, center)
        \o create_springs(params, center)
        \o create_anchors(params, center)
        \o create_electrodes(params, center)
        \o create_metal_routing(params, center)
        \o create_vias(params, center)
        \o create_alignment_marks(params, center)
        \o create_dicing_lines(params, center)
        \o create_seal_ring(params, center)
        \o create_guard_ring(params, center)
        \o create_text_labels(params, center)

(***************************************************************************)
(* State                                                                   *)
(*                                                                         *)
(* prog                which program runs: "worker" (DesignWorker.run),    *)
(*                     "example" (consumer_accelerometer.main), or a       *)
(*                     direct call of one method: "synthesize",            *)
(*                     "validate", "layout"                                *)
(* pc                  its position                                        *)
(* performance_params  the PerformanceParams the run works on              *)
(* mask_params         the MaskParameters dictionary                       *)
(* verdict             what validate_design returned                       *)
(* component           the shapes of the root component                    *)
(* output              the signals emitted / the lines printed, in order   *)
(* calls               the calls of validate_design and of                 *)
(*                     generate_accelerometer_layout, in order, each with  *)
(*                     its argument (a direct caller that raises the       *)
(*                     voltage keeps its latest call only)                 *)
(* voltage_steps       how often the direct caller has raised the voltage  *)
(* objects             the instance attributes (declared above)            *)
(* frames              the local variables of the callers that run side by *)
(*                     side: frames[t] is the frame of caller t            *)
(***************************************************************************)
VARIABLES prog, pc, performance_params, mask_params, verdict, component, output, calls,
          voltage_steps, frames

vars == <<prog, pc, performance_params, mask_params, verdict, component, output, calls,
          voltage_steps, objects, frames>>

PerformanceParams(sensitivity, bandwidth, noise_density) ==
  [sensitivity |-> sensitivity, bandwidth |-> bandwidth, noise_density |-> noise_density,
   full_scale_range |-> FInt(10), resolution |-> FInt(1), power_consumption |-> FInt(5)]

NoParams == PerformanceParams(Zero, Zero, Zero)

\* The performance_params of create_consumer_accelerometer.
ConsumerParams == PerformanceParams(FInt(100), FInt(1000), FInt(50))

\* The targets start_design reads from the spin boxes: the ends of their
\* ranges and values between.
SensitivitySpin == {F(1000, -4), FInt(1), FInt(100), FInt(1000)}
BandwidthSpin == {FInt(1), FInt(100), FInt(1000), FInt(10000)}
NoiseSpin == {F(1000, -4), FInt(50), FInt(1000)}

WorkerInputs ==
  {PerformanceParams(s, b, n) : s \in SensitivitySpin, b \in BandwidthSpin, n \in NoiseSpin}

\* No caller runs side by side with the pipeline.
NoFrames == <<>>

NoVerdict == [ok |-> FALSE, message |-> "not validated"]

NoComponent == <<>>

Signal(name, arg) == <<name, arg>>

Call(fn, arg, ok) == [fn |-> fn, arg |-> arg, ok |-> ok]

Init ==
  /\ prog \in {"worker", "example"}
  /\ pc = "start"
  /\ performance_params \in (IF prog = "worker" THEN WorkerInputs ELSE {NoParams})
  /\ mask_params = NoMask
  /\ verdict = NoVerdict
  /\ component = NoComponent
  /\ output = <<>>
  /\ calls = <<>>
  /\ voltage_steps = 0
  /\ objects = Constructed({1})
  /\ frames = NoFrames

(***************************************************************************)
(* main_window.py: DesignWorker.run                                        *)
(***************************************************************************)
\* A faulty variant of WorkerSynthesize: the run goes on to the layout
\* without validating.
WorkerSynthesizeUngated ==
  /\ prog = "worker" /\ pc = "start"
  /\ \E r \in {calculate_mask_parameters(performance_params)} :
       /\ output' = output \o <<Signal("status_updated", "computing"),
                                Signal("progress_updated", "20")>>
       /\ pc' = IF r.raised THEN "done" ELSE "validated"
       /\ mask_params' = r.mask_params
  /\ UNCHANGED <<prog, performance_params, verdict, component, calls, voltage_steps, objects, frames>>

\* Lines 36-41; an exception leaves through the handler of lines 68-69.
WorkerSynthesize ==
  /\ prog = "worker" /\ pc = "start"
  /\ \E r \in {calculate_mask_parameters(performance_params)} :
       IF r.raised
       THEN /\ output' = output \o <<Signal("status_updated", "computing"),
                                     Signal("progress_updated", "20"),
                                     Signal("error_occurred", "exception")>>
            /\ pc' = "done"
            /\ UNCHANGED mask_params
       ELSE /\ output' = output \o <<Signal("status_updated", "computing"),
                                     Signal("progress_updated", "20")>>
            /\ pc' = "synthesized"
            /\ mask_params' = r.mask_params
  /\ UNCHANGED <<prog, performance_params, verdict, component, calls, voltage_steps, objects, frames>>

\* Lines 43-50.
WorkerValidate ==
  /\ prog = "worker" /\ pc = "synthesized"
  /\ \E v \in {validate_design(mask_params)} :
       /\ verdict' = v
       /\ calls' = Append(calls, Call("validate_design", mask_params, v.ok))
       /\ IF ~v.ok
          THEN /\ output' = output \o <<Signal("status_updated", "validating"),
                                        Signal("progress_updated", "40"),
                                        Signal("error_occurred", v.message)>>
               /\ pc' = "done"
          ELSE /\ output' = output \o <<Signal("status_updated", "validating"),
                                        Signal("progress_updated", "40")>>
               /\ pc' = "validated"
  /\ UNCHANGED <<prog, performance_params, mask_params, component, voltage_steps, objects, frames>>

\* Lines 52-57.
WorkerLayout ==
  /\ prog = "worker" /\ pc = "validated"
  /\ component' = generate_accelerometer_layout(mask_params)
  /\ calls' = Append(calls, Call("generate_accelerometer_layout", mask_params, TRUE))
  /\ output' = output \o <<Signal("status_updated", "generating layout"),
                           Signal("progress_updated", "60")>>
  /\ pc' = "laid_out"
  /\ UNCHANGED <<prog, performance_params, mask_params, verdict, voltage_steps, objects, frames>>

\* Lines 59-66.
WorkerComplete ==
  /\ prog = "worker" /\ pc = "laid_out"
  /\ output' = output \o <<Signal("status_updated", "design complete"),
                           Signal("progress_updated", "100"),
                           Signal("design_completed", "result")>>
  /\ pc' = "done"
  /\ UNCHANGED <<prog, performance_params, mask_params, verdict, component, calls,
                 voltage_steps, objects, frames>>

(***************************************************************************)
(* consumer_accelerometer.py: create_consumer_accelerometer and main       *)
(* An exception leaves create_consumer_accelerometer for main's handler,   *)
(* which prints it and exits with status 1 (pc = "exit1").                 *)
(***************************************************************************)
\* Lines 23-41.
ExampleDefine ==
  /\ prog = "example" /\ pc = "start"
  /\ performance_params' = ConsumerParams
  /\ output' = Append(output, Signal("print", "performance parameters"))
  /\ pc' = "defined"
  /\ UNCHANGED <<prog, mask_params, verdict, component, calls, voltage_steps, objects, frames>>

\* Lines 43-50.
ExampleSynthesize ==
  /\ prog = "example" /\ pc = "defined"
  /\ \E r \in {calculate_mask_parameters(performance_params)} :
       IF r.raised
       THEN /\ output' = Append(output, Signal("print", "error"))
            /\ pc' = "exit1"
            /\ UNCHANGED mask_params
       ELSE /\ output' = Append(output, Signal("print", "mask parameters"))
            /\ pc' = "synthesized"
            /\ mask_params' = r.mask_params
  /\ UNCHANGED <<prog, performance_params, verdict, component, calls, voltage_steps, objects, frames>>

\* Lines 52-60.
ExampleValidate ==
  /\ prog = "example" /\ pc = "synthesized"
  /\ \E v \in {validate_design(mask_params)} :
       /\ verdict' = v
       /\ calls' = Append(calls, Call("validate_design", mask_params, v.ok))
       /\ output' = Append(output, Signal("print", v.message))
       /\ pc' = IF v.ok THEN "validated" ELSE "returned"
  /\ UNCHANGED <<prog, performance_params, mask_params, component, voltage_steps, objects, frames>>

\* Lines 62-65.
ExampleLayout ==
  /\ prog = "example" /\ pc = "validated"
  /\ component' = generate_accelerometer_layout(mask_params)
  /\ calls' = Append(calls, Call("generate_accelerometer_layout", mask_params, TRUE))
  /\ output' = Append(output, Signal("print", "generating layout"))
  /\ pc' = "laid_out"
  /\ UNCHANGED <<prog, performance_params, mask_params, verdict, voltage_steps, objects, frames>>

\* Lines 67-89: the preview is saved and shown, the GDS file written.
ExampleExport ==
  /\ prog = "example" /\ pc = "laid_out"
  /\ output' = output \o <<Signal("print", "preview saved"), Signal("print", "GDS file saved")>>
  /\ pc' = "exported"
  /\ UNCHANGED <<prog, performance_params, mask_params, verdict, component, calls,
                 voltage_steps, objects, frames>>

\* Lines 91-125, 127-131 and main's handler, lines 137-139.  The call of
\* calculate_damping_ratio passes two of its four arguments: a TypeError.
ExampleMetrics ==
  /\ prog = "example" /\ pc = "exported"
  /\ output' = output \o <<Signal("print", "proof mass area"),
                           Signal("print", "spring stiffness"),
                           Signal("print", "natural frequency"),
                           Signal("print", "pull-in voltage"),
                           Signal("print", "error")>>
  /\ pc' = "exit1"
  /\ UNCHANGED <<prog, performance_params, mask_params, verdict, component, calls,
                 voltage_steps, objects, frames>>

Next ==
  \/ WorkerSynthesize
  \/ WorkerValidate
  \/ WorkerLayout
  \/ WorkerComplete
  \/ ExampleDefine
  \/ ExampleSynthesize
  \/ ExampleValidate
  \/ ExampleLayout
  \/ ExampleExport
  \/ ExampleMetrics

Spec == Init /\ [][Next]_vars

(***************************************************************************)
(* Direct calls of calculate_mask_parameters with targets of any size:     *)
(* zero, values below and above what the geometry can reach, very large.   *)
(***************************************************************************)
SensitivityTargets == {Zero, F(1000, -10), F(1000, -8), FInt(100), F(1000, 297)}
BandwidthTargets == {Zero, FInt(1000), F(1000, 1), F(3000, 1), F(1000, 297)}
NoiseTargets == {Zero, FInt(40), FInt(50), F(1000, 297)}

SynthesisInputs ==
  {PerformanceParams(s, b, n) : s \in SensitivityTargets, b \in BandwidthTargets,
                                n \in NoiseTargets}

InitSynthesize ==
  /\ prog = "synthesize"
  /\ pc = "ready"
  /\ performance_params \in SynthesisInputs
  /\ mask_params = NoMask
  /\ verdict = NoVerdict
  /\ component = NoComponent
  /\ output = <<>>
  /\ calls = <<>>
  /\ voltage_steps = 0
  /\ objects = Constructed({1})
  /\ frames = NoFrames

CallSynthesize ==
  /\ prog = "synthesize" /\ pc = "ready"
  /\ \E r \in {calculate_mask_parameters(performance_params)} :
       /\ pc' = IF r.raised THEN "raised" ELSE "returned"
       /\ mask_params' = r.mask_params
  /\ UNCHANGED <<prog, performance_params, verdict, component, output, calls, voltage_steps, objects, frames>>

NextSynthesize == CallSynthesize

SpecSynthesize == InitSynthesize /\ [][NextSynthesize]_vars

(***************************************************************************)
(* Direct calls of validate_design: a caller validates a dictionary, then  *)
(* raises its voltage and validates again, geometry unchanged.             *)
(***************************************************************************)
MaxVoltageSteps == 12

Sizes == {F(2000, -1), F(1000, 0), F(2000, 0)}
Lengths == {F(1000, -1), F(3000, -1), F(5000, -1)}
Widths == {F(1000, -3), F(1999, -3), F(2000, -3), F(5000, -3), F(5000, -2)}
Gaps == {F(2000, -3), F(2999, -3), F(3000, -3), F(5000, -3)}
Voltages == {F(1000, -3), F(5000, -3)}
VoltageFactors == {FInt(2), FInt(10)}

ValidateInputs ==
  {[MaskParameters([proof_mass_size |-> s, spring_length |-> l, spring_width |-> w])
      EXCEPT !.gap = g, !.voltage = v] :
     s \in Sizes, l \in Lengths, w \in Widths, g \in Gaps, v \in Voltages}

InitValidate ==
  /\ prog = "validate"
  /\ pc = "ready"
  /\ performance_params = NoParams
  /\ mask_params \in ValidateInputs
  /\ verdict = NoVerdict
  /\ component = NoComponent
  /\ output = <<>>
  /\ calls = <<>>
  /\ voltage_steps = 0
  /\ objects = Constructed({1})
  /\ frames = NoFrames

CallValidate ==
  /\ prog = "validate" /\ pc = "ready"
  /\ \E v \in {validate_design(mask_params)} :
       /\ verdict' = v
       /\ calls' = Append(calls, Call("validate_design", mask_params, v.ok))
  /\ pc' = "returned"
  /\ UNCHANGED <<prog, performance_params, mask_params, component, output, voltage_steps, objects, frames>>

RaiseVoltage ==
  /\ prog = "validate" /\ pc = "returned"
  /\ voltage_steps < MaxVoltageSteps
  /\ \E f \in VoltageFactors :
       \E raised \in {[mask_params EXCEPT !.voltage = FMul(@, f)]} :
         \E v \in {validate_design(raised)} :
           /\ mask_params' = raised
           /\ verdict' = v
           /\ calls' = <<Call("validate_design", raised, v.ok)>>
  /\ voltage_steps' = voltage_steps + 1
  /\ UNCHANGED <<prog, pc, performance_params, component, output, objects, frames>>

NextValidate == CallValidate \/ RaiseVoltage

SpecValidate == InitValidate /\ [][NextValidate]_vars /\ WF_vars(NextValidate)

(***************************************************************************)
(* Direct calls of generate_accelerometer_layout                           *)
(***************************************************************************)
AnchorFactors == {F(2000, -4), F(1000, -4)}
LayoutSizes == {F(2000, -1), F(8463, -1), F(1000, 0), F(2000, 0)}
LayoutWidths == {F(5000, -3), F(2587, -2), F(5000, -2)}
LayoutGaps == {F(3000, -3), F(5000, -3)}

LayoutInputs ==
  {[MaskParameters([proof_mass_size |-> s, spring_length |-> l, spring_width |-> w])
      EXCEPT !.gap = g, !.anchor_size = FMul(s, a)] :
     s \in LayoutSizes, l \in Lengths, w \in LayoutWidths, g \in LayoutGaps,
     a \in AnchorFactors}

InitLayout ==
  /\ prog = "layout"
  /\ pc = "ready"
  /\ performance_params = NoParams
  /\ mask_params \in LayoutInputs
  /\ verdict = NoVerdict
  /\ component = NoComponent
  /\ output = <<>>
  /\ calls = <<>>
  /\ voltage_steps = 0
  /\ objects = Constructed({1})
  /\ frames = NoFrames

CallLayout ==
  /\ prog = "layout" /\ pc = "ready"
  /\ component' = generate_accelerometer_layout(mask_params)
  /\ calls' = Append(calls, Call("generate_accelerometer_layout", mask_params, TRUE))
  /\ pc' = "returned"
  /\ UNCHANGED <<prog, performance_params, mask_params, verdict, output, voltage_steps, objects, frames>>

NextLayout == CallLayout

SpecLayout == InitLayout /\ [][NextLayout]_vars

(***************************************************************************)
(* A session: one caller makes calls of calculate_mask_parameters and of   *)
(* validate_design on two calculator instances, in any order, and keeps    *)
(* what each call returned.                                                *)
(***************************************************************************)
MaxCalls == 3

Calculators == {1, 2}

SessionInputs ==
  {ConsumerParams,
   PerformanceParams(F(1000, -8), F(3000, 1), FInt(40)),
   PerformanceParams(FInt(100), Zero, FInt(50))}

\* One call as the caller saw it.
Outcome(instance, fn, arg, result) ==
  [instance |-> instance, fn |-> fn, arg |-> arg, result |-> result]

InitSession ==
  /\ prog = "session"
  /\ pc = "ready"
  /\ performance_params = NoParams
  /\ mask_params = NoMask
  /\ verdict = NoVerdict
  /\ component = NoComponent
  /\ output = <<>>
  /\ calls = <<>>
  /\ voltage_steps = 0
  /\ objects = Constructed(Calculators)
  /\ frames = NoFrames

\* A faulty variant of SessionSynthesize: the calculator keeps the geometry
\* it ended on as an instance attribute and starts its next call from it.
SynthesizeFromLastGeometry(c, p) ==
  /\ prog = "session" /\ Len(calls) < MaxCalls
  /\ \E start \in {IF "geometry" \in DOMAIN objects.calculators[c]
                   THEN objects.calculators[c].geometry ELSE InitialGeometry} :
       \E end \in {SynthesisLoop(1, start, p)} :
         /\ calls' = Append(calls, Outcome(c, "calculate_mask_parameters", p, Returned(end)))
         /\ mask_params' = IF end.raised THEN mask_params ELSE MaskParameters(end.geometry)
         /\ objects' = [objects EXCEPT !.calculators[c] =
                          [silicon |-> @.silicon, air_viscosity |-> @.air_viscosity,
                           geometry |-> end.geometry]]
  /\ performance_params' = p
  /\ UNCHANGED <<prog, pc, verdict, component, output, voltage_steps, frames>>

\* calculator c's calculate_mask_parameters(p), lines 221-282.
SessionSynthesize(c, p) ==
  /\ prog = "session" /\ Len(calls) < MaxCalls
  /\ \E r \in {calculate_mask_parameters(p)} :
       /\ calls' = Append(calls, Outcome(c, "calculate_mask_parameters", p, r))
       /\ mask_params' = IF r.raised THEN mask_params ELSE r.mask_params
  /\ performance_params' = p
  /\ UNCHANGED <<prog, pc, verdict, component, output, voltage_steps, objects, frames>>

\* calculator c's validate_design on the dictionary the caller holds, lines
\* 284-309.
SessionValidate(c) ==
  /\ prog = "session" /\ Len(calls) < MaxCalls
  /\ mask_params # NoMask
  /\ \E v \in {validate_design(mask_params)} :
       /\ calls' = Append(calls, Outcome(c, "validate_design", mask_params, v))
       /\ verdict' = v
  /\ UNCHANGED <<prog, pc, performance_params, mask_params, component, output,
                 voltage_steps, objects, frames>>

NextSession ==
  \/ \E c \in Calculators : \E p \in SessionInputs : SessionSynthesize(c, p)
  \/ \E c \in Calculators : SessionValidate(c)

SpecSession == InitSession /\ [][NextSession]_vars

(***************************************************************************)
(* Calls of the layer registry: a caller calls the six methods of          *)
(* MEMSLayerDefinitions in any order, with names the table holds and one   *)
(* it does not, and edits the dict that get_all_layers handed to it.       *)
(***************************************************************************)
RegistryNames == DOMAIN layers \cup {"oxide"}
RegistryWidths == {Um(1), Um(2), Um(10), Um(100)}
RegistrySpacings == {-Um(1), 0, Um(1), Um(3), Um(50)}

\* What the caller keeps of its latest call.
Called(fn, layer_name, width, spacing, raised, result) ==
  [fn |-> fn, layer_name |-> layer_name, width |-> width, spacing |-> spacing,
   raised |-> raised, result |-> result]

NoCall == Called("none", "", 0, 0, FALSE, "none")

NoDict == [held |-> FALSE, own |-> FALSE, items |-> <<>>]

\* The caller's frame: its latest call and the dict it was handed.
last == frames[1].last
handed == frames[1].handed

InitRegistry ==
  /\ prog = "registry"
  /\ pc = "ready"
  /\ performance_params = NoParams
  /\ mask_params = NoMask
  /\ verdict = NoVerdict
  /\ component = NoComponent
  /\ output = <<>>
  /\ calls = <<>>
  /\ voltage_steps = 0
  /\ objects = Constructed({1})
  /\ frames = <<[last |-> NoCall, handed |-> NoDict]>>

\* The caller's frame after a call that takes a layer name.
AfterLookup(fn, layer_name, width, spacing, subscript, value) ==
  <<[last |-> IF subscript.raised
              THEN Called(fn, layer_name, width, spacing, TRUE, subscript.value)
              ELSE Called(fn, layer_name, width, spacing, FALSE, value),
     handed |-> handed]>>

CallGetLayerInfo(layer_name) ==
  /\ prog = "registry"
  /\ frames' = AfterLookup("get_layer_info", layer_name, 0, 0, Subscript(layer_name),
                           get_layer_info(layer_name))
  /\ UNCHANGED <<prog, pc, performance_params, mask_params, verdict, component, output,
                 calls, voltage_steps, objects>>

CallGetLayerNumber(layer_name) ==
  /\ prog = "registry"
  /\ frames' = AfterLookup("get_layer_number", layer_name, 0, 0, Subscript(layer_name),
                           IF Subscript(layer_name).raised THEN 0
                           ELSE get_layer_number(layer_name))
  /\ UNCHANGED <<prog, pc, performance_params, mask_params, verdict, component, output,
                 calls, voltage_steps, objects>>

CallGetLayerTuple(layer_name) ==
  /\ prog = "registry"
  /\ frames' = AfterLookup("get_layer_tuple", layer_name, 0, 0, Subscript(layer_name),
                           IF Subscript(layer_name).raised THEN <<>>
                           ELSE get_layer_tuple(layer_name))
  /\ UNCHANGED <<prog, pc, performance_params, mask_params, verdict, component, output,
                 calls, voltage_steps, objects>>

CallValidateDimensions(layer_name, width, spacing) ==
  /\ prog = "registry"
  /\ frames' = AfterLookup("validate_dimensions", layer_name, width, spacing,
                           Subscript(layer_name),
                           IF Subscript(layer_name).raised THEN FALSE
                           ELSE validate_dimensions(layer_name, width, spacing))
  /\ UNCHANGED <<prog, pc, performance_params, mask_params, verdict, component, output,
                 calls, voltage_steps, objects>>

CallGetAllLayers ==
  /\ prog = "registry"
  /\ frames' = <<[last |-> Called("get_all_layers", "", 0, 0, FALSE, "dict"),
                  handed |-> get_all_layers]>>
  /\ UNCHANGED <<prog, pc, performance_params, mask_params, verdict, component, output,
                 calls, voltage_steps, objects>>

CallGetLayerNames ==
  /\ prog = "registry"
  /\ frames' = <<[last |-> Called("get_layer_names", "", 0, 0, FALSE, get_layer_names),
                  handed |-> handed]>>
  /\ UNCHANGED <<prog, pc, performance_params, mask_params, verdict, component, output,
                 calls, voltage_steps, objects>>

\* The dict items after the caller's edit: d.pop("text"), or
\* d["spring"] = a descriptor with layer number 1.
Edited(items, edit) ==
  IF edit = "pop" THEN [name \in DOMAIN items \ {"text"} |-> items[name]]
  ELSE [name \in DOMAIN items |->
          IF name = "spring" THEN LayerInfo(1, 0, 2, 3) ELSE items[name]]

\* The caller edits the dict it was handed.  The edit shows in self.layers
\* only if the dict is self.layers itself.
CallerEdits(edit) ==
  /\ prog = "registry"
  /\ handed.held
  /\ frames' = <<[last |-> last,
                  handed |-> Dict(handed.own, Edited(handed.items, edit))]>>
  /\ objects' = IF handed.own
                THEN [objects EXCEPT !.layers = Edited(handed.items, edit)]
                ELSE objects
  /\ UNCHANGED <<prog, pc, performance_params, mask_params, verdict, component, output,
                 calls, voltage_steps>>

NextRegistry ==
  \/ \E layer_name \in RegistryNames : CallGetLayerInfo(layer_name)
  \/ \E layer_name \in RegistryNames : CallGetLayerNumber(layer_name)
  \/ \E layer_name \in RegistryNames : CallGetLayerTuple(layer_name)
  \/ \E layer_name \in RegistryNames : \E width \in RegistryWidths :
       \E spacing \in RegistrySpacings : CallValidateDimensions(layer_name, width, spacing)
  \/ CallGetAllLayers
  \/ CallGetLayerNames
  \/ \E edit \in {"pop", "set"} : CallerEdits(edit)

SpecRegistry == InitRegistry /\ [][NextRegistry]_vars

(***************************************************************************)
(* Concurrent callers: two threads share one calculator.  Each calls       *)
(* calculate_mask_parameters and then validate_design on what it got, and  *)
(* their steps interleave pass by pass of the synthesis loop.  frames[t]   *)
(* holds thread t's local variables: the loop's counter i and geometry g,  *)
(* the returned dictionary and verdict, and in overlap the threads that    *)
(* were inside a call when t's call began.                                 *)
(***************************************************************************)
Threads == {1, 2}

IdleFrame ==
  [pc |-> "idle", performance_params |-> NoParams, i |-> 0, g |-> InitialGeometry,
   mask_params |-> NoMask, verdict |-> NoVerdict, overlap |-> {}]

InitConcurrent ==
  /\ prog = "concurrent"
  /\ pc = "ready"
  /\ performance_params = NoParams
  /\ mask_params = NoMask
  /\ verdict = NoVerdict
  /\ component = NoComponent
  /\ output = <<>>
  /\ calls = <<>>
  /\ voltage_steps = 0
  /\ objects = Constructed({1})
  /\ frames = [t \in Threads |-> IdleFrame]

\* Lines 225-230: the call begins from the initial estimates.
ThreadCall(t, p) ==
  /\ prog = "concurrent"
  /\ frames[t].pc \in {"idle", "done", "raised"}
  /\ frames' = [frames EXCEPT ![t] =
       [pc |-> "loop", performance_params |-> p, i |-> 0, g |-> InitialGeometry,
        mask_params |-> NoMask, verdict |-> NoVerdict,
        overlap |-> {u \in Threads \ {t} : frames[u].pc \in {"loop", "synthesized"}}]]
  /\ UNCHANGED <<prog, pc, performance_params, mask_params, verdict, component, output,
                 calls, voltage_steps, objects>>

\* A faulty variant of ThreadPass: the loop keeps its geometry in an
\* attribute of the calculator (self.geometry), which the threads share.
ThreadPassOnInstance(t) ==
  /\ prog = "concurrent"
  /\ frames[t].pc = "loop" /\ frames[t].i < Iterations
  /\ \E start \in {IF "geometry" \in DOMAIN objects.calculators[1]
                   THEN objects.calculators[1].geometry ELSE frames[t].g} :
       \E step \in {SynthesisPass(start, frames[t].performance_params)} :
         /\ frames' = [frames EXCEPT ![t] =
              IF step.raised THEN [@ EXCEPT !.pc = "raised"]
              ELSE [@ EXCEPT !.g = step.geometry, !.i = @ + 1]]
         /\ objects' = [objects EXCEPT !.calculators[1] =
                          [silicon |-> @.silicon, air_viscosity |-> @.air_viscosity,
                           geometry |-> step.geometry]]
  /\ UNCHANGED <<prog, pc, performance_params, mask_params, verdict, component, output,
                 calls, voltage_steps>>

\* Lines 233-264: one pass of the loop, on the thread's local variables.
ThreadPass(t) ==
  /\ prog = "concurrent"
  /\ frames[t].pc = "loop" /\ frames[t].i < Iterations
  /\ \E step \in {SynthesisPass(frames[t].g, frames[t].performance_params)} :
       frames' = [frames EXCEPT ![t] =
         IF step.raised THEN [@ EXCEPT !.pc = "raised"]
         ELSE [@ EXCEPT !.g = step.geometry, !.i = @ + 1]]
  /\ UNCHANGED <<prog, pc, performance_params, mask_params, verdict, component, output,
                 calls, voltage_steps, objects>>

\* Lines 266-282: range(10) is exhausted, the dictionary is returned.
ThreadReturn(t) ==
  /\ prog = "concurrent"
  /\ frames[t].pc = "loop" /\ frames[t].i = Iterations
  /\ frames' = [frames EXCEPT ![t] =
       [@ EXCEPT !.pc = "synthesized", !.mask_params = MaskParameters(frames[t].g)]]
  /\ UNCHANGED <<prog, pc, performance_params, mask_params, verdict, component, output,
                 calls, voltage_steps, objects>>

\* Lines 284-309: validate_design on the dictionary the thread got.
ThreadValidate(t) ==
  /\ prog = "concurrent"
  /\ frames[t].pc = "synthesized"
  /\ frames' = [frames EXCEPT ![t] =
       [@ EXCEPT !.pc = "done", !.verdict = validate_design(frames[t].mask_params)]]
  /\ UNCHANGED <<prog, pc, performance_params, mask_params, verdict, component, output,
                 calls, voltage_steps, objects>>

NextConcurrent ==
  \/ \E t \in Threads : \E p \in SessionInputs : ThreadCall(t, p)
  \/ \E t \in Threads : ThreadPass(t)
  \/ \E t \in Threads : ThreadReturn(t)
  \/ \E t \in Threads : ThreadValidate(t)

SpecConcurrent == InitConcurrent /\ [][NextConcurrent]_vars

(***************************************************************************)
(* main_window.py: MainWindow and its DesignWorker threads.  The window's  *)
(* attributes performance_params, mask_params and component are the        *)
(* variables of those names, its widgets are objects.window, the worker of *)
(* run t has the frame frames[t], and calls is the event queue through     *)
(* which the signals of the workers reach the slots of the window (a       *)
(* signal is queued as the run and its index in that worker's emitted      *)
(* list).  output is the file the last export wrote.  params_of_run and    *)
(* result_of_run record which run wrote performance_params and which wrote *)
(* mask_params and component.                                              *)
(***************************************************************************)
MaxRuns == 2

\* Two settings of the spin boxes that synthesize different geometries.
WindowInputs ==
  {ConsumerParams, PerformanceParams(F(1000, -4), FInt(1), F(1000, -4))}

\* MainWindow.__init__ and init_ui.
MainWindow ==
  [design_button |-> TRUE, export_gds_button |-> FALSE, export_params_button |-> FALSE,
   progress_bar |-> [visible |-> FALSE, value |-> 0], status_label |-> "ready",
   params_text |-> <<>>, info_text |-> <<>>, worker |-> 0,
   params_of_run |-> 0, result_of_run |-> 0]

\* DesignWorker.__init__.
DesignWorker(params) ==
  [pc |-> "start", performance_params |-> params, mask_params |-> NoMask,
   component |-> NoComponent, emitted |-> <<>>]

InitWindow ==
  /\ prog = "window"
  /\ pc = "event_loop"
  /\ performance_params = NoParams
  /\ mask_params = NoMask
  /\ verdict = NoVerdict
  /\ component = NoComponent
  /\ output = <<>>
  /\ calls = <<>>
  /\ voltage_steps = 0
  /\ objects = [name \in {"calculators", "layers", "window"} |->
                  IF name = "window" THEN MainWindow ELSE Constructed({1})[name]]
  /\ frames = NoFrames

\* The signals a worker has emitted, queued for the window's thread.
Queued(t, first, count) == [i \in 1..count |-> [run |-> t, index |-> first + i]]

\* start_design, on a click on the design button.
StartDesign(params) ==
  /\ prog = "window"
  /\ objects.window.design_button
  /\ Len(frames) < MaxRuns
  /\ performance_params' = params
  /\ objects' = [objects EXCEPT !.window.design_button = FALSE,
                                !.window.progress_bar = [visible |-> TRUE, value |-> 0],
                                !.window.worker = Len(frames) + 1,
                                !.window.params_of_run = Len(frames) + 1]
  /\ frames' = Append(frames, DesignWorker(params))
  /\ UNCHANGED <<prog, pc, mask_params, verdict, component, output, calls, voltage_steps>>

\* DesignWorker.run, lines 36-41 and the handler of lines 68-69.
RunSynthesize(t) ==
  /\ prog = "window" /\ t \in DOMAIN frames /\ frames[t].pc = "start"
  /\ \E r \in {calculate_mask_parameters(frames[t].performance_params)} :
       IF r.raised
       THEN /\ frames' = [frames EXCEPT
                            ![t].pc = "done",
                            ![t].emitted = @ \o <<Signal("status_updated", "computing"),
                                                  Signal("progress_updated", 20),
                                                  Signal("error_occurred", "exception")>>]
            /\ calls' = calls \o Queued(t, 0, 3)
       ELSE /\ frames' = [frames EXCEPT
                            ![t].pc = "synthesized",
                            ![t].mask_params = r.mask_params,
                            ![t].emitted = @ \o <<Signal("status_updated", "computing"),
                                                  Signal("progress_updated", 20)>>]
            /\ calls' = calls \o Queued(t, 0, 2)
  /\ UNCHANGED <<prog, pc, performance_params, mask_params, verdict, component, output,
                 voltage_steps, objects>>

\* Lines 43-50.
RunValidate(t) ==
  /\ prog = "window" /\ t \in DOMAIN frames /\ frames[t].pc = "synthesized"
  /\ \E v \in {validate_design(frames[t].mask_params)} :
       IF ~v.ok
       THEN /\ frames' = [frames EXCEPT
                            ![t].pc = "done",
                            ![t].emitted = @ \o <<Signal("status_updated", "validating"),
                                                  Signal("progress_updated", 40),
                                                  Signal("error_occurred", v.message)>>]
            /\ calls' = calls \o Queued(t, 2, 3)
       ELSE /\ frames' = [frames EXCEPT
                            ![t].pc = "validated",
                            ![t].emitted = @ \o <<Signal("status_updated", "validating"),
                                                  Signal("progress_updated", 40)>>]
            /\ calls' = calls \o Queued(t, 2, 2)
  /\ UNCHANGED <<prog, pc, performance_params, mask_params, verdict, component, output,
                 voltage_steps, objects>>

\* Lines 52-57.
RunLayout(t) ==
  /\ prog = "window" /\ t \in DOMAIN frames /\ frames[t].pc = "validated"
  /\ frames' = [frames EXCEPT
                  ![t].pc = "laid_out",
                  ![t].component = generate_accelerometer_layout(frames[t].mask_params),
                  ![t].emitted = @ \o <<Signal("status_updated", "generating layout"),
                                        Signal("progress_updated", 60)>>]
  /\ calls' = calls \o Queued(t, 4, 2)
  /\ UNCHANGED <<prog, pc, performance_params, mask_params, verdict, component, output,
                 voltage_steps, objects>>

\* Lines 59-66.
RunComplete(t) ==
  /\ prog = "window" /\ t \in DOMAIN frames /\ frames[t].pc = "laid_out"
  /\ frames' = [frames EXCEPT
                  ![t].pc = "done",
                  ![t].emitted = @ \o <<Signal("status_updated", "design complete"),
                                        Signal("progress_updated", 100),
                                        Signal("design_completed",
                                               [mask_params |-> frames[t].mask_params,
                                                component |-> frames[t].component,
                                                performance_params |->
                                                  frames[t].performance_params])>>]
  /\ calls' = calls \o Queued(t, 6, 3)
  /\ UNCHANGED <<prog, pc, performance_params, mask_params, verdict, component, output,
                 voltage_steps, objects>>

\* update_params_display and update_info_display.
update_params_display(params, result) ==
  [performance_params |-> params, mask_params |-> result.mask_params]

update_info_display(result) ==
  [proof_mass_size |-> result.mask_params.proof_mass_size,
   spring_width |-> result.mask_params.spring_width,
   spring_length |-> result.mask_params.spring_length]

\* A faulty variant of design_completed: the design button is left disabled.
DesignCompletedButtonOff(window, params, result) ==
  [window EXCEPT !.params_text = update_params_display(params, result),
                 !.info_text = update_info_display(result),
                 !.export_gds_button = TRUE,
                 !.export_params_button = TRUE,
                 !.progress_bar.visible = FALSE]

\* design_completed: the widgets after the slot has run.
design_completed(window, params, result) ==
  [window EXCEPT !.params_text = update_params_display(params, result),
                 !.info_text = update_info_display(result),
                 !.export_gds_button = TRUE,
                 !.export_params_button = TRUE,
                 !.design_button = TRUE,
                 !.progress_bar.visible = FALSE]

\* design_error: the widgets after the slot has run.
design_error(window, error_message) ==
  [window EXCEPT !.design_button = TRUE, !.progress_bar.visible = FALSE]

\* The window's thread takes the next signal from its queue and runs the
\* slot connected to it (lines 329-332).
Deliver ==
  /\ prog = "window" /\ calls # <<>>
  /\ calls' = Tail(calls)
  /\ \E signal \in {frames[calls[1].run].emitted[calls[1].index]} :
       IF signal[1] = "progress_updated"
       THEN /\ objects' = [objects EXCEPT !.window.progress_bar.value = signal[2]]
            /\ UNCHANGED <<mask_params, component>>
       ELSE IF signal[1] = "status_updated"
       THEN /\ objects' = [objects EXCEPT !.window.status_label = signal[2]]
            /\ UNCHANGED <<mask_params, component>>
       ELSE IF signal[1] = "design_completed"
       THEN /\ mask_params' = signal[2].mask_params
            /\ component' = signal[2].component
            /\ objects' = [objects EXCEPT
                             !.window = [design_completed(@, performance_params, signal[2])
                                           EXCEPT !.result_of_run = calls[1].run]]
       ELSE /\ objects' = [objects EXCEPT !.window = design_error(@, signal[2])]
            /\ UNCHANGED <<mask_params, component>>
  /\ UNCHANGED <<prog, pc, performance_params, verdict, output, voltage_steps, frames>>

\* export_params, on a click on its button: the file holds the window's
\* performance parameters and mask parameters.
ExportParams ==
  /\ prog = "window"
  /\ objects.window.export_params_button
  /\ mask_params # NoMask
  /\ output' = <<[file |-> "imu_params.txt", performance_params |-> performance_params,
                  mask_params |-> mask_params]>>
  /\ UNCHANGED <<prog, pc, performance_params, mask_params, verdict, component, calls,
                 voltage_steps, objects, frames>>

\* export_gds, on a click on its button.
ExportGds ==
  /\ prog = "window"
  /\ objects.window.export_gds_button
  /\ component # NoComponent
  /\ output' = <<[file |-> "imu_accelerometer.gds", component |-> component]>>
  /\ UNCHANGED <<prog, pc, performance_params, mask_params, verdict, component, calls,
                 voltage_steps, objects, frames>>

RunStep(t) == RunSynthesize(t) \/ RunValidate(t) \/ RunLayout(t) \/ RunComplete(t)

NextWindow ==
  \/ \E params \in WindowInputs : StartDesign(params)
  \/ \E t \in 1..MaxRuns : RunSynthesize(t)
  \/ \E t \in 1..MaxRuns : RunValidate(t)
  \/ \E t \in 1..MaxRuns : RunLayout(t)
  \/ \E t \in 1..MaxRuns : RunComplete(t)
  \/ Deliver
  \/ ExportParams
  \/ ExportGds

\* The worker threads run on, and the event loop of the window's thread
\* delivers every queued signal.
SpecWindow ==
  /\ InitWindow
  /\ [][NextWindow]_vars
  /\ \A t \in 1..MaxRuns : WF_vars(RunStep(t))
  /\ WF_vars(Deliver)

(***************************************************************************)
(* Properties                                                              *)
(***************************************************************************)
InRange(x, lo, hi) == FLe(lo, x) /\ FLe(x, hi)

Emitted(name) == \E i \in DOMAIN output : output[i][1] = name

Reported(message) == \E i \in DOMAIN output : output[i][2] = message

ShapesOfKind(kinds) == {i \in DOMAIN component : component[i].kind \in kinds}

KindSet(kind) == {component[i] : i \in ShapesOfKind({kind})}

PullInOf(params) ==
  calculate_pull_in_voltage(params.proof_mass_size, params.spring_length,
                            params.spring_width, params.gap)

\* C1: for every input, zero and very large targets included,
\* calculate_mask_parameters returns a dictionary whose proof_mass_size is
\* in [200, 2000], spring_width in [5, 50] and spring_length in [100, 500].
\* Checked under SpecSynthesize; it fails: a bandwidth target of 0 makes
\* the call raise ZeroDivisionError.
C1_ReturnsClampedGeometry ==
  pc # "ready" =>
    /\ pc = "returned"
    /\ InRange(mask_params.proof_mass_size, F(2000, -1), F(2000, 0))
    /\ InRange(mask_params.spring_width, F(5000, -3), F(5000, -2))
    /\ InRange(mask_params.spring_length, F(1000, -1), F(5000, -1))

\* The call has raised on a bandwidth target of 0 and returned nothing.
C1_ZeroBandwidthRaises ==
  /\ pc = "raised"
  /\ IsZero(performance_params.bandwidth)
  /\ ~IsZero(performance_params.sensitivity)
  /\ mask_params = NoMask

\* C2: validate_design fails exactly when spring_width < 2, or gap < 3, or
\* the pull-in voltage of the geometry is below 1.5 * voltage; in particular
\* every dictionary with gap < 3 fails.  Checked under SpecValidate.
C2_FailsExactlyOnTheThreeChecks ==
  pc = "returned" =>
    /\ (~verdict.ok) <=>
         (\/ FLt(mask_params.spring_width, F(2000, -3))
          \/ FLt(mask_params.gap, F(3000, -3))
          \/ FLt(PullInOf(mask_params), FMul(mask_params.voltage, F(1500, -3))))
    /\ FLt(mask_params.gap, F(3000, -3)) => ~verdict.ok

\* A dictionary that passes the other two checks has failed on its gap.
C2_GapAloneFails ==
  /\ pc = "returned"
  /\ FLt(mask_params.gap, F(3000, -3))
  /\ ~FLt(mask_params.spring_width, F(2000, -3))
  /\ ~FLt(PullInOf(mask_params), FMul(mask_params.voltage, F(1500, -3)))
  /\ ~verdict.ok

\* C3: in DesignWorker.run and create_consumer_accelerometer the layout is
\* generated only after validate_design has returned true for the same
\* mask parameters: a component or a design_completed signal exists only
\* with a passing verdict, and a failing verdict is reported, with no
\* component and no design_completed.  Checked under Spec.
C3_LayoutOnlyAfterValidation ==
  /\ \A i \in DOMAIN calls :
       calls[i].fn = "generate_accelerometer_layout" =>
         \E j \in 1..(i - 1) : calls[j] = Call("validate_design", calls[i].arg, TRUE)
  /\ component # NoComponent => verdict.ok
  /\ Emitted("design_completed") => verdict.ok /\ component # NoComponent
  /\ (verdict # NoVerdict /\ ~verdict.ok) =>
       /\ Reported(verdict.message)
       /\ component = NoComponent
       /\ ~Emitted("design_completed")

\* A worker run has validated, generated the layout and completed.
C3_CompletedAfterValidation ==
  /\ prog = "worker" /\ pc = "done"
  /\ Emitted("design_completed")
  /\ Len(calls) = 2
  /\ calls[1] = Call("validate_design", mask_params, TRUE)
  /\ calls[2].fn = "generate_accelerometer_layout"

\* The largest lower edge among the dicing lines: the inner edge of the
\* top line, as a distance from the device centre.
RECURSIVE SetMax(_)
SetMax(S) ==
  IF Cardinality(S) = 1 THEN CHOOSE x \in S : TRUE
  ELSE LET x == CHOOSE y \in S : TRUE
       IN  Max(x, SetMax(S \ {x}))

DicingInnerEdge == SetMax({d.y0 : d \in KindSet("dicing")})

\* C4: the dicing frame, the seal ring and the guard ring nest without
\* overlap: the seal ring lies inside the inner edge of the dicing lines and
\* the guard ring inside the inner boundary of the seal ring.  Checked under
\* SpecLayout; it fails: the guard ring lies in the wall of the seal ring.
C4_FramesNest ==
  pc = "returned" =>
    \A seal \in KindSet("seal_ring"), guard \in KindSet("guard_ring") :
      /\ -DicingInnerEdge <= seal.x0 /\ seal.x1 <= DicingInnerEdge
      /\ -DicingInnerEdge <= seal.y0 /\ seal.y1 <= DicingInnerEdge
      /\ seal.hole[1] <= guard.x0 /\ guard.x1 <= seal.hole[3]
      /\ seal.hole[2] <= guard.y0 /\ guard.y1 <= seal.hole[4]

\* The guard ring's outer edge is beyond the seal ring's inner edge, and its
\* wall lies within the wall of the seal ring.
C4_GuardInSealWall ==
  /\ pc = "returned"
  /\ \E seal \in KindSet("seal_ring"), guard \in KindSet("guard_ring") :
       /\ guard.x1 > seal.hole[3]
       /\ guard.hole[3] = seal.hole[3]
       /\ guard.x1 < seal.x1

PriorKinds ==
  {"proof_mass", "hole", "spring", "anchor", "electrode", "bond_pad", "routing", "via",
   "alignment"}

Inside(shape, half) ==
  /\ -half <= shape.x0 /\ shape.x1 <= half
  /\ -half <= shape.y0 /\ shape.y1 <= half

\* C5: for every dictionary the synthesis produces, the square of
\* half-extent chip_edge_distance_from_center about the device centre
\* contains the proof mass, holes, springs, anchors, electrodes, pads,
\* routing stubs, vias and alignment marks.  Checked under Spec; it fails
\* for the consumer example's design.
C5_ChipBoundaryContainsStructures ==
  component # NoComponent =>
    \A i \in ShapesOfKind(PriorKinds) :
      Inside(component[i], chip_edge_distance_from_center(mask_params))

\* The consumer example's layout has a bond pad wholly beyond the boundary.
C5_PadBeyondBoundary ==
  /\ prog = "example"
  /\ component # NoComponent
  /\ \E i \in ShapesOfKind({"bond_pad"}) :
       component[i].x0 >= chip_edge_distance_from_center(mask_params)

\* Reflection in the x-axis (y -> -y) and in the y-axis (x -> -x).
MirrorInXAxis(shape) == [shape EXCEPT !.y0 = -shape.y1, !.y1 = -shape.y0]

MirrorInYAxis(shape) == [shape EXCEPT !.x0 = -shape.x1, !.x1 = -shape.x0]

\* C6: the four springs, the four anchors and the four electrodes are each
\* mapped onto themselves by the reflections in the x-axis and in the
\* y-axis through (0, 0).  Checked under SpecLayout; it fails: the proof
\* mass has its corner, not its centre, at (0, 0).
C6_MirrorSymmetric ==
  pc = "returned" =>
    \A kind \in {"spring", "anchor", "electrode"} :
      \A shape \in KindSet(kind) :
        /\ MirrorInXAxis(shape) \in KindSet(kind)
        /\ MirrorInYAxis(shape) \in KindSet(kind)

\* The left spring ends at x = 0 and its mirror image is not a spring.
C6_LeftSpringHasNoMirrorImage ==
  /\ pc = "returned"
  /\ \E shape \in KindSet("spring") :
       /\ shape.x1 = 0
       /\ shape.x0 = -Fx(mask_params.spring_length)
       /\ MirrorInYAxis(shape) \notin KindSet("spring")

Count(kinds) == Cardinality(ShapesOfKind(kinds))

\* C7: generate_accelerometer_layout adds exactly 51 shapes for any mask
\* parameters: 1 proof mass, 9 holes, 4 springs, 4 anchors, 4 electrodes,
\* 8 pads and routes, 4 vias, 8 alignment bars, 4 dicing lines, 1 seal
\* ring, 1 guard ring and 3 labels.  Checked under SpecLayout.
C7_FiftyOneShapes ==
  pc = "returned" =>
    /\ Len(component) = 51
    /\ Count({"proof_mass"}) = 1
    /\ Count({"hole"}) = 9
    /\ Count({"spring"}) = 4
    /\ Count({"anchor"}) = 4
    /\ Count({"electrode"}) = 4
    /\ Count({"bond_pad", "routing"}) = 8
    /\ Count({"via"}) = 4
    /\ Count({"alignment"}) = 8
    /\ Count({"dicing"}) = 4
    /\ Count({"seal_ring"}) = 1
    /\ Count({"guard_ring"}) = 1
    /\ Count({"text"}) = 3

\* A layout of the smallest proof mass has been generated with its last
\* shape a label.
C7_LayoutGenerated ==
  /\ pc = "returned"
  /\ mask_params.proof_mass_size = F(2000, -1)
  /\ Len(component) = 51
  /\ component[51].kind = "text"

\* The registry name of the layer a shape is tagged with.
LayerName(shape) == CHOOSE n \in DOMAIN layers : get_layer_tuple(n) = shape.layer

\* The smaller side of a rectangle, the wall width of a ring.
SmallerSide(shape) ==
  IF shape.hole = NoHole
  THEN Min(shape.x1 - shape.x0, shape.y1 - shape.y0)
  ELSE Min(shape.hole[1] - shape.x0, shape.hole[2] - shape.y0)

\* C8: every shape of the layout of a synthesized dictionary is at least as
\* wide as the min_width of the layer it is tagged with (labels aside, whose
\* outline is the geometry library's).  Checked under Spec; it fails for
\* the alignment bars and the dicing lines.
C8_ShapesRespectMinWidth ==
  \A i \in DOMAIN component :
    component[i].kind # "text" =>
      validate_dimensions(LayerName(component[i]), SmallerSide(component[i]), 0)

\* The layout has an alignment bar 20 wide on a layer of min_width 50 and a
\* dicing line 50 wide on a layer of min_width 100.
C8_BarsAndLinesTooNarrow ==
  /\ \E i \in ShapesOfKind({"alignment"}) :
       /\ SmallerSide(component[i]) = Um(20)
       /\ get_layer_info(LayerName(component[i])).min_width = Um(50)
  /\ \E i \in ShapesOfKind({"dicing"}) :
       /\ SmallerSide(component[i]) = Um(50)
       /\ get_layer_info(LayerName(component[i])).min_width = Um(100)

\* C9: for the targets sensitivity 100, bandwidth 1000, noise density 50,
\* validate_design applied to the output of calculate_mask_parameters
\* returns true with the success message.  Checked under Spec.
C9_ConsumerDesignValidates ==
  (performance_params = ConsumerParams /\ pc \notin {"start", "defined", "synthesized"}) =>
    /\ verdict = [ok |-> TRUE, message |-> "design validated"]
    /\ calls[1] = Call("validate_design", mask_params, TRUE)

\* The example has synthesized and validated its design.
C9_ConsumerValidated ==
  /\ prog = "example" /\ pc = "validated"
  /\ performance_params = ConsumerParams
  /\ mask_params.proof_mass_size = F(2000, 0)
  /\ mask_params.spring_length = F(5000, -1)
  /\ verdict.ok

\* C10: with the geometry fixed, spring_width >= 2 and gap >= 3,
\* validate_design passes exactly for the voltages up to
\* pull_in_voltage / 1.5; raising the voltage never turns a failure into a
\* pass, and eventually produces a failure.  Checked under SpecValidate.
C10_MonotoneInVoltage ==
  /\ [](pc = "returned" /\ ~FLt(mask_params.spring_width, F(2000, -3))
                        /\ ~FLt(mask_params.gap, F(3000, -3))
          => (verdict.ok <=>
                FLe(mask_params.voltage, FDiv(PullInOf(mask_params), F(1500, -3)))))
  /\ [][(pc = "returned" /\ ~verdict.ok) => ~verdict'.ok]_vars
  /\ <>(pc = "returned" /\ ~verdict.ok)

\* A geometry that passes at 1 V has failed after its voltage was raised.
C10_RaisedIntoFailure ==
  /\ pc = "returned"
  /\ voltage_steps > 0
  /\ ~verdict.ok
  /\ validate_design([mask_params EXCEPT !.voltage = F(1000, -3)]).ok

Close(a, b) == FLe(a, FMul(b, F(1010, -3))) /\ FLe(b, FMul(a, F(1010, -3)))

\* The dictionary params with its spring_width doubled.
DoubledWidth(params) == [params EXCEPT !.spring_width = FMul(FInt(2), @)]

\* The k_total that calculate_pull_in_voltage computes for params.
StiffnessOf(params) == StiffnessTotal(params.spring_length, params.spring_width, thickness)

\* C12: with spring_length, proof_mass_size and gap held fixed, doubling
\* spring_width multiplies the k_total of calculate_pull_in_voltage by 8 and
\* the pull-in voltage by sqrt(8).  Checked under SpecValidate; it fails:
\* the code's second moment is linear in spring_width.
C12_DoublingWidthGivesEightfold ==
  pc = "returned" =>
    /\ Close(StiffnessOf(DoubledWidth(mask_params)),
             FMul(FInt(8), StiffnessOf(mask_params)))
    /\ Close(PullInOf(DoubledWidth(mask_params)),
             FMul(FSqrt(FInt(8)), PullInOf(mask_params)))

\* C12, as the code has it: doubling spring_width doubles k_total (the
\* second moment is spring_width * thickness^3 / 12, linear in the width)
\* and multiplies the pull-in voltage by sqrt(2), to within rounding.
C12_DoublingWidthDoubles ==
  pc = "returned" =>
    /\ Close(StiffnessOf(DoubledWidth(mask_params)),
             FMul(FInt(2), StiffnessOf(mask_params)))
    /\ Close(PullInOf(DoubledWidth(mask_params)),
             FMul(FSqrt(FInt(2)), PullInOf(mask_params)))

\* A design whose pull-in voltage was computed and whose k_total at twice
\* the width is twice as large, not eight times.
C12_TwiceNotEightfold ==
  /\ pc = "returned"
  /\ mask_params.spring_width = F(5000, -3)
  /\ Close(StiffnessOf(DoubledWidth(mask_params)), FMul(FInt(2), StiffnessOf(mask_params)))
  /\ ~Close(StiffnessOf(DoubledWidth(mask_params)), FMul(FInt(8), StiffnessOf(mask_params)))
  /\ ~Close(PullInOf(DoubledWidth(mask_params)),
            FMul(FSqrt(FInt(8)), PullInOf(mask_params)))

\* C13: validate_dimensions(name, width, spacing) returns true exactly when
\* width >= min_width and (spacing = 0 or spacing >= min_spacing), for every
\* layer, width and spacing, negative spacings included.  Checked under
\* SpecRegistry; it fails: the code passes every negative spacing.
C13_TrueIffWidthAndSpacingRules ==
  (last.fn = "validate_dimensions" /\ ~last.raised) =>
    (last.result <=>
       (/\ last.width >= layers[last.layer_name].min_width
        /\ (last.spacing = 0 \/ last.spacing >= layers[last.layer_name].min_spacing)))

\* validate_dimensions has returned true for a negative spacing.
C13_NegativeSpacingPasses ==
  /\ last.fn = "validate_dimensions" /\ ~last.raised
  /\ last.layer_name = "spring"
  /\ last.width = Um(2)
  /\ last.spacing = -Um(1)
  /\ last.result = TRUE

\* The methods that look a layer name up in self.layers.
LookupMethods == {"get_layer_info", "get_layer_number", "get_layer_tuple", "validate_dimensions"}

\* C14: a lookup (get_layer_info, get_layer_number, get_layer_tuple,
\* validate_dimensions) of a name the registry does not hold fails with
\* KeyError, a LookupError, and leaves the registry as it was; a lookup of
\* a name it holds never fails.  Checked under SpecRegistry.
C14_UnknownNameRaisesLookupError ==
  last.fn \in LookupMethods =>
    /\ last.raised <=> last.layer_name \notin DOMAIN layers
    /\ last.raised => last.result = "KeyError"
    /\ objects = Constructed({1})

\* get_layer_tuple was called with a name the registry does not hold and
\* has raised KeyError; the table is the constructor's.
C14_UnknownNameLookedUp ==
  /\ last.fn = "get_layer_tuple"
  /\ last.layer_name = "oxide"
  /\ last.raised
  /\ last.result = "KeyError"
  /\ objects.layers = layers

\* C17: the registry holds exactly 20 descriptors, their layer numbers are
\* pairwise distinct and are exactly 1..20, the table is the constructor's
\* after any sequence of registry operations, and the dict get_all_layers
\* hands out is a copy, so a caller's edits of it do not reach the table.
\* Checked under SpecRegistry.
C17_TwentyLayersNumberedOneToTwenty ==
  /\ Cardinality(DOMAIN objects.layers) = 20
  /\ {objects.layers[name].layer_number : name \in DOMAIN objects.layers} = 1..20
  /\ \A a \in DOMAIN objects.layers : \A b \in DOMAIN objects.layers :
       objects.layers[a].layer_number = objects.layers[b].layer_number => a = b
  /\ objects.layers = layers
  /\ handed.held => ~handed.own

\* The caller has removed an entry from, and overwritten an entry of, the
\* dict get_all_layers handed out, and get_layer_names then still lists the
\* 20 names.
C17_CopyEdited ==
  /\ handed.held
  /\ Cardinality(DOMAIN handed.items) = 19
  /\ handed.items["spring"].layer_number = 1
  /\ last.fn = "get_layer_names"
  /\ last.result = LayerOrder

\* C15: in the synthesis loop an update whose current performance value
\* (sensitivity, noise, bandwidth) is zero is skipped and leaves its geometry
\* variable unchanged, and the loop never lets a division by zero escape.
\* Checked under SpecSynthesize; it fails: a bandwidth target of 0 passes
\* the guard on the current bandwidth and 1/bandwidth_ratio raises
\* ZeroDivisionError.
C15_ZeroSkipsAndNoDivisionFault ==
  /\ ScaleByRoot(InitialGeometry.proof_mass_size, performance_params.sensitivity, Zero)
       = InitialGeometry.proof_mass_size
  /\ ScaleByRoot(InitialGeometry.spring_width, performance_params.noise_density, Zero)
       = InitialGeometry.spring_width
  /\ ScaleLength(InitialGeometry.spring_length, performance_params.bandwidth, Zero)
       = [raised |-> FALSE, spring_length |-> InitialGeometry.spring_length]
  /\ pc # "raised"

\* The first pass of the loop has raised: the current bandwidth is not zero,
\* the target is, and the call has ended in ZeroDivisionError.
C15_FirstPassRaised ==
  /\ pc = "raised"
  /\ performance_params = PerformanceParams(FInt(100), Zero, FInt(50))
  /\ ~IsZero(calculate_bandwidth(InitialGeometry.proof_mass_size,
                                 InitialGeometry.spring_length,
                                 InitialGeometry.spring_width, DefaultDampingRatio))
  /\ SynthesisPass(InitialGeometry, performance_params).raised

\* C18: every dictionary calculate_mask_parameters returns has exactly the
\* nine fields; anchor_size is 0.2 and electrode_size 0.8 times the final,
\* clamped proof_mass_size; gap = 3, voltage = 5, trench_width = 5 and
\* via_size = 10 whatever the input.  Checked under SpecSynthesize.
C18_NineFieldsDerivedFromFinalSize ==
  pc = "returned" =>
    /\ DOMAIN mask_params =
         {"proof_mass_size", "spring_length", "spring_width", "anchor_size",
          "electrode_size", "gap", "trench_width", "via_size", "voltage"}
    /\ InRange(mask_params.proof_mass_size, F(2000, -1), F(2000, 0))
    /\ mask_params.anchor_size = FMul(mask_params.proof_mass_size, F(2000, -4))
    /\ mask_params.electrode_size = FMul(mask_params.proof_mass_size, F(8000, -4))
    /\ mask_params.gap = FInt(3)
    /\ mask_params.voltage = FInt(5)
    /\ mask_params.trench_width = FInt(5)
    /\ mask_params.via_size = FInt(10)

\* A call has returned a dictionary whose proof_mass_size the clamp has
\* moved away from the initial 1000: anchor 40 and electrode 160 on a size
\* of 200.
C18_ReturnedAtClampedSize ==
  /\ pc = "returned"
  /\ mask_params.proof_mass_size = FInt(200)
  /\ mask_params.anchor_size = FInt(40)
  /\ mask_params.electrode_size = FInt(160)
  /\ ~IsZero(performance_params.bandwidth)

\* C16: no method of the calculator, the layer registry or the layout
\* generator writes an instance attribute after construction, so however
\* the steps of concurrent synthesize and validate calls interleave, each
\* call ends as it would alone: with the dictionary (or the exception) of
\* calculate_mask_parameters on its input and the verdict of validate_design
\* on that dictionary.  Checked under SpecConcurrent.
C16_InterleavedAsSequential ==
  /\ objects = Constructed({1})
  /\ \A t \in Threads :
       /\ frames[t].pc \in {"synthesized", "done"} =>
            calculate_mask_parameters(frames[t].performance_params)
              = [raised |-> FALSE, mask_params |-> frames[t].mask_params]
       /\ frames[t].pc = "raised" =>
            calculate_mask_parameters(frames[t].performance_params).raised
       /\ frames[t].pc = "done" =>
            frames[t].verdict = validate_design(frames[t].mask_params)

\* Both threads have finished calls that overlapped, on different inputs:
\* thread 2 was inside its call when thread 1 began.
C16_OverlappingCallsFinished ==
  /\ frames[1].pc = "done"
  /\ frames[2].pc = "done"
  /\ frames[1].overlap = {2}
  /\ frames[1].performance_params # frames[2].performance_params
  /\ frames[1].mask_params # frames[2].mask_params

\* The geometry a pass that starts from g must end on: each variable scaled
\* by the ratio of its target to the current value computed from g itself,
\* and clamped after the scaling.
StartOfPassUpdate(g, p) ==
  [proof_mass_size |->
     Clip(ScaleByRoot(g.proof_mass_size, p.sensitivity,
                      calculate_sensitivity(g.proof_mass_size, g.spring_length,
                                            g.spring_width, FInt(3), FInt(5))),
          FInt(200), FInt(2000)),
   spring_width |->
     Clip(ScaleByRoot(g.spring_width, p.noise_density,
                      calculate_noise(g.proof_mass_size, g.spring_length, g.spring_width,
                                      FInt(3), FInt(300))),
          FInt(5), FInt(50)),
   spring_length |->
     Clip(ScaleLength(g.spring_length, p.bandwidth,
                      calculate_bandwidth(g.proof_mass_size, g.spring_length,
                                          g.spring_width, F(7000, -4))).spring_length,
          FInt(100), FInt(500))]

\* C19: the synthesis loop runs exactly 10 passes; each pass computes its
\* three ratios from the geometry it starts with (the spring_width and
\* spring_length updates do not see the pass's new proof_mass_size) and
\* clamps after the three updates; the dictionary is returned after the
\* tenth pass, from the geometry that pass left.  Checked under
\* SpecConcurrent, where the loop runs pass by pass.
C19_TenPassesEachFromItsStart ==
  [][\A t \in Threads :
       (frames[t].pc = "loop" /\ frames'[t] # frames[t]) =>
         \/ /\ frames[t].i < 10
            /\ frames'[t].pc = "loop"
            /\ frames'[t].i = frames[t].i + 1
            /\ frames'[t].g = StartOfPassUpdate(frames[t].g, frames[t].performance_params)
         \/ /\ frames[t].i < 10
            /\ frames'[t].pc = "raised"
            /\ IsZero(frames[t].performance_params.bandwidth)
         \/ /\ frames[t].i = 10
            /\ frames'[t].pc = "synthesized"
            /\ frames'[t].mask_params.proof_mass_size = frames[t].g.proof_mass_size
            /\ frames'[t].mask_params.spring_width = frames[t].g.spring_width
            /\ frames'[t].mask_params.spring_length = frames[t].g.spring_length]_vars

\* A call has returned after its tenth pass, and its first pass moved all
\* three variables away from the initial estimates.
C19_ReturnedAfterTenPasses ==
  \E t \in Threads :
    /\ frames[t].pc = "synthesized"
    /\ frames[t].i = 10
    /\ StartOfPassUpdate(InitialGeometry, frames[t].performance_params).proof_mass_size
         # InitialGeometry.proof_mass_size
    /\ StartOfPassUpdate(InitialGeometry, frames[t].performance_params).spring_width
         # InitialGeometry.spring_width
    /\ StartOfPassUpdate(InitialGeometry, frames[t].performance_params).spring_length
         # InitialGeometry.spring_length

\* The one proof-mass shape of the component.
ProofMassShape == CHOOSE shape \in KindSet("proof_mass") : TRUE

\* spring has one end on an edge of mass, with its centre line through the
\* midpoint of that edge (to within one layout unit of rounding).
StartsAtEdgeMidpoint(spring, mass) ==
  \/ /\ spring.x1 = mass.x0 \/ spring.x0 = mass.x1
     /\ spring.y0 + spring.y1 - (mass.y0 + mass.y1) \in -1..1
  \/ /\ spring.y1 = mass.y0 \/ spring.y0 = mass.y1
     /\ spring.x0 + spring.x1 - (mass.x0 + mass.x1) \in -1..1

\* The boxes a and b touch along a stretch of an edge.
Abuts(a, b) ==
  \/ /\ a.x1 = b.x0 \/ a.x0 = b.x1
     /\ a.y0 < b.y1 /\ b.y0 < a.y1
  \/ /\ a.y1 = b.y0 \/ a.y0 = b.y1
     /\ a.x0 < b.x1 /\ b.x0 < a.x1

\* C20: each of the four springs starts at the midpoint of one edge of the
\* proof-mass square, and its outer end abuts one of the four anchors.
\* Checked under SpecLayout; it fails: the springs are placed about the
\* lower-left corner of the proof mass, and no anchor touches the two
\* vertical springs.
C20_SpringsJoinEdgeMidpointsToAnchors ==
  pc = "returned" =>
    \A spring \in KindSet("spring") :
      /\ StartsAtEdgeMidpoint(spring, ProofMassShape)
      /\ \E anchor \in KindSet("anchor") : Abuts(spring, anchor)

\* The layout is generated: no spring starts at an edge midpoint (the
\* horizontal springs are centred on the line of the bottom edge, the
\* vertical ones on the line of the left edge), and two of the four springs
\* abut no anchor.
C20_SpringsAboutTheCorner ==
  /\ pc = "returned"
  /\ Cardinality(KindSet("spring")) = 4
  /\ \A spring \in KindSet("spring") : ~StartsAtEdgeMidpoint(spring, ProofMassShape)
  /\ \E spring \in KindSet("spring") :
       spring.y0 + spring.y1 - 2 * ProofMassShape.y0 \in -1..1
  /\ \E spring \in KindSet("spring") :
       spring.x0 + spring.x1 - 2 * ProofMassShape.x0 \in -1..1
  /\ Cardinality({spring \in KindSet("spring") :
                    \A anchor \in KindSet("anchor") : ~Abuts(spring, anchor)}) = 2

\* The n-th shape of a kind, in the order the shapes were added.
Nth(kind, n) ==
  component[CHOOSE i \in ShapesOfKind({kind}) :
              Cardinality({j \in ShapesOfKind({kind}) : j < i}) = n - 1]

\* The box inner lies within the box outer.
Within(inner, outer) ==
  /\ outer.x0 <= inner.x0 /\ inner.x1 <= outer.x1
  /\ outer.y0 <= inner.y0 /\ inner.y1 <= outer.y1

\* The boxes a and b touch or overlap.
Touches(a, b) ==
  /\ a.x0 <= b.x1 /\ b.x0 <= a.x1
  /\ a.y0 <= b.y1 /\ b.y0 <= a.y1

\* The boxes a and b have the same centre, to within rounding of a half.
SameCentre(a, b) ==
  /\ a.x0 + a.x1 - (b.x0 + b.x1) \in -2..2
  /\ a.y0 + a.y1 - (b.y0 + b.y1) \in -2..2

\* C21: the nine relief holes form a 3x3 grid, hole side 0.1*size and pitch
\* 0.2*size, whose centre is the centre of the proof-mass square, so every
\* hole lies inside the proof mass.  Checked under SpecLayout; it fails:
\* the grid is laid about the lower-left corner of the proof mass.
C21_HoleGridCentredInsideMass ==
  pc = "returned" =>
    /\ Cardinality(KindSet("hole")) = 9
    /\ \A hole \in KindSet("hole") :
         /\ (hole.x1 - hole.x0) * 10 = ProofMassShape.x1 - ProofMassShape.x0
         /\ (hole.y1 - hole.y0) * 10 = ProofMassShape.y1 - ProofMassShape.y0
         /\ Within(hole, ProofMassShape)
         /\ \E opposite \in KindSet("hole") :
              /\ hole.x0 + hole.x1 + opposite.x0 + opposite.x1
                   = 2 * (ProofMassShape.x0 + ProofMassShape.x1)
              /\ hole.y0 + hole.y1 + opposite.y0 + opposite.y1
                   = 2 * (ProofMassShape.y0 + ProofMassShape.y1)
    /\ \A a \in KindSet("hole") : \A b \in KindSet("hole") :
         a.x0 < b.x0 =>
           (b.x0 - a.x0) * 10 \in {2 * (ProofMassShape.x1 - ProofMassShape.x0),
                                   4 * (ProofMassShape.x1 - ProofMassShape.x0)}

\* The layout has nine holes of side 0.1*size at pitch 0.2*size, the middle
\* one with its corner on the lower-left corner of the proof mass, and five
\* of them outside the proof mass altogether or in part.
C21_HolesAboutTheCorner ==
  /\ pc = "returned"
  /\ Cardinality(KindSet("hole")) = 9
  /\ \E hole \in KindSet("hole") :
       hole.x0 = ProofMassShape.x0 /\ hole.y0 = ProofMassShape.y0
  /\ \E hole \in KindSet("hole") :
       hole.x1 < ProofMassShape.x0 /\ hole.y1 < ProofMassShape.y0
  /\ Cardinality({hole \in KindSet("hole") : ~Within(hole, ProofMassShape)}) = 5

\* The dictionaries calculate_mask_parameters returns for SynthesisInputs.
SynthesizedDictionaries ==
  {calculate_mask_parameters(p).mask_params : p \in SynthesisInputs} \ {NoMask}

\* C22: each of the four bond pads is joined to the anchor of its corner by
\* its routing stub: the stub touches or overlaps both the pad and the
\* anchor, for every dictionary the synthesis can produce.  Checked under
\* SpecLayout; it fails: the stubs run at a fixed distance from the proof
\* mass and miss the anchors of the smaller designs.
C22_StubsJoinPadsToAnchors ==
  (pc = "returned" /\ mask_params \in SynthesizedDictionaries) =>
    \A n \in 1..4 :
      /\ Touches(Nth("routing", n), Nth("bond_pad", n))
      /\ Touches(Nth("routing", n), Nth("anchor", n))

\* The dictionary synthesized for a sensitivity target of 1e-7 (size 200,
\* anchors 40) is laid out: every stub touches its pad and none touches its
\* anchor.
C22_StubsMissAnchors ==
  /\ pc = "returned"
  /\ mask_params =
       calculate_mask_parameters(
         PerformanceParams(F(1000, -10), FInt(1000), FInt(50))).mask_params
  /\ mask_params.anchor_size = F(4000, -2)
  /\ \A n \in 1..4 :
       /\ Touches(Nth("routing", n), Nth("bond_pad", n))
       /\ ~Touches(Nth("routing", n), Nth("anchor", n))

\* The box of the n-th alignment mark: its two bars.
MarkBox(n) ==
  [x0 |-> Nth("alignment", 2 * n - 1).x0, x1 |-> Nth("alignment", 2 * n - 1).x1,
   y0 |-> Nth("alignment", 2 * n).y0, y1 |-> Nth("alignment", 2 * n).y1]

\* The box a has no interior point in common with the box b.
Apart(a, b) ==
  \/ a.x1 <= b.x0 \/ b.x1 <= a.x0
  \/ a.y1 <= b.y0 \/ b.y1 <= a.y0

\* C23: each of the four alignment marks lies beyond the bond pad of its
\* corner: it does not overlap the pad and is farther from the device.
\* Checked under SpecLayout; it fails: each mark lies within the outline
\* of its pad.
C23_MarksBeyondPads ==
  pc = "returned" =>
    \A n \in 1..4 :
      /\ Apart(MarkBox(n), Nth("bond_pad", n))
      /\ Apart(Nth("alignment", 2 * n - 1), Nth("bond_pad", n))
      /\ Apart(Nth("alignment", 2 * n), Nth("bond_pad", n))

\* The layout is generated and each mark, 100 square, lies within its pad,
\* 200 square, in the pad's outer corner.
C23_MarksWithinPads ==
  /\ pc = "returned"
  /\ \A n \in 1..4 :
       /\ Within(MarkBox(n), Nth("bond_pad", n))
       /\ MarkBox(n).x1 - MarkBox(n).x0 = Um(100)
       /\ Nth("bond_pad", n).x1 - Nth("bond_pad", n).x0 = Um(200)
       /\ (MarkBox(n).x0 = Nth("bond_pad", n).x0 \/ MarkBox(n).x1 = Nth("bond_pad", n).x1)

\* The electrode faces an edge of mass across the gap and is centred on the
\* midpoint of that edge.
FacesEdge(electrode, mass, gap) ==
  \/ /\ electrode.x1 = mass.x0 - gap \/ electrode.x0 = mass.x1 + gap
     /\ electrode.y0 + electrode.y1 - (mass.y0 + mass.y1) \in -2..2
     /\ mass.y0 <= electrode.y0 /\ electrode.y1 <= mass.y1
  \/ /\ electrode.y1 = mass.y0 - gap \/ electrode.y0 = mass.y1 + gap
     /\ electrode.x0 + electrode.x1 - (mass.x0 + mass.x1) \in -2..2
     /\ mass.x0 <= electrode.x0 /\ electrode.x1 <= mass.x1

\* C24: each of the four electrodes is a square of side electrode_size, at
\* distance gap outside one edge of the proof mass, centred on the midpoint
\* of that edge and, electrode_size being 0.8 * proof_mass_size, within the
\* ends of the edge.  Checked under SpecLayout.
C24_ElectrodesFaceEdgeMidpoints ==
  pc = "returned" =>
    /\ Cardinality(KindSet("electrode")) = 4
    /\ \A electrode \in KindSet("electrode") :
         /\ electrode.x1 - electrode.x0 = Fx(mask_params.electrode_size)
         /\ electrode.y1 - electrode.y0 = Fx(mask_params.electrode_size)
         /\ FacesEdge(electrode, ProofMassShape, Fx(mask_params.gap))

\* A layout with a gap of 5: an electrode to the left of the proof mass, one
\* to its right, one below and one above, each 5 away.
C24_ElectrodesOnFourSides ==
  /\ pc = "returned"
  /\ mask_params.gap = FInt(5)
  /\ \E e \in KindSet("electrode") : e.x1 = ProofMassShape.x0 - Um(5)
  /\ \E e \in KindSet("electrode") : e.x0 = ProofMassShape.x1 + Um(5)
  /\ \E e \in KindSet("electrode") : e.y1 = ProofMassShape.y0 - Um(5)
  /\ \E e \in KindSet("electrode") : e.y0 = ProofMassShape.y1 + Um(5)

\* C25: each of the four vias is a square of side via_size whose centre is
\* the centre of one anchor, one via per anchor, and lies wholly inside the
\* anchor when via_size is no larger than anchor_size (as for every
\* synthesized dictionary: via_size 10, anchor_size at least 40).  Checked
\* under SpecLayout.
C25_ViasCentredOnAnchors ==
  pc = "returned" =>
    /\ Cardinality(KindSet("via")) = 4
    /\ Cardinality(KindSet("anchor")) = 4
    /\ \A n \in 1..4 :
         /\ Nth("via", n).x1 - Nth("via", n).x0 = Fx(mask_params.via_size)
         /\ Nth("via", n).y1 - Nth("via", n).y0 = Fx(mask_params.via_size)
         /\ SameCentre(Nth("via", n), Nth("anchor", n))
         /\ Within(Nth("via", n), Nth("anchor", n))

\* A layout whose anchors are 40 square, the smallest a synthesized
\* dictionary has, each with a via 10 square inside it.
C25_ViaInSmallestAnchor ==
  /\ pc = "returned"
  /\ mask_params.anchor_size = FInt(40)
  /\ \A n \in 1..4 :
       /\ Nth("anchor", n).x1 - Nth("anchor", n).x0 = Um(40)
       /\ Nth("via", n).x0 = Nth("anchor", n).x0 + Um(15)
       /\ Nth("via", n).y1 = Nth("anchor", n).y1 - Um(15)

\* The layer number the claim gives for each kind of shape.
LayerNumberOfKind ==
  [proof_mass |-> 2, hole |-> 2, spring |-> 3, anchor |-> 4, electrode |-> 5, via |-> 10,
   bond_pad |-> 14, routing |-> 15, alignment |-> 16, dicing |-> 17, seal_ring |-> 18,
   guard_ring |-> 19, text |-> 20]

\* C26: every shape generate_accelerometer_layout adds carries the
\* (layer_number, datatype) pair of the registry entry of its sub-structure
\* (proof mass and holes 2, springs 3, anchors 4, electrodes 5, vias 10,
\* pads 14, stubs 15, marks 16, dicing frame 17, seal ring 18, guard ring
\* 19, labels 20), and no shape carries a pair the registry does not hold.
\* Checked under SpecLayout.
C26_ShapesCarryTheirRegistryLayer ==
  \A i \in DOMAIN component :
    /\ component[i].kind \in DOMAIN LayerNumberOfKind
    /\ component[i].layer = <<LayerNumberOfKind[component[i].kind], 0>>
    /\ \E name \in DOMAIN objects.layers :
         /\ component[i].layer = get_layer_tuple(name)
         /\ component[i].kind \in {name, "hole"}

\* The layout is generated with shapes of all thirteen kinds, on twelve
\* layers.
C26_AllKindsLaidOut ==
  /\ pc = "returned"
  /\ {component[i].kind : i \in DOMAIN component} = DOMAIN LayerNumberOfKind
  /\ Cardinality({component[i].layer : i \in DOMAIN component}) = 12

\* The corners of the box the synthesis clamps the geometry to, with the
\* gap and the voltage calculate_mask_parameters writes.
ClampBoxCorners ==
  {MaskParameters([proof_mass_size |-> s, spring_length |-> l, spring_width |-> w]) :
     s \in {FInt(200), FInt(2000)}, l \in {FInt(100), FInt(500)},
     w \in {FInt(5), FInt(50)}}

\* The dictionary lies in the clamp box, with gap 3 and voltage 5.
InClampBox(params) ==
  /\ FLe(FInt(200), params.proof_mass_size) /\ FLe(params.proof_mass_size, FInt(2000))
  /\ FLe(FInt(100), params.spring_length) /\ FLe(params.spring_length, FInt(500))
  /\ FLe(FInt(5), params.spring_width) /\ FLe(params.spring_width, FInt(50))
  /\ params.gap = FInt(3)
  /\ params.voltage = FInt(5)

\* Every synthesized dictionary and every corner of the clamp box lies in
\* the box and passes validate_design.
BoxAndSynthesizedValidate ==
  \A params \in SynthesizedDictionaries \cup ClampBoxCorners :
    InClampBox(params) /\ validate_design(params).ok

\* C27: validate_design never rejects an output of
\* calculate_mask_parameters: every synthesized dictionary lies in the clamp
\* box with gap 3 and voltage 5, every corner of that box passes the three
\* checks (the softest, size 2000, length 500, width 5, included), and a
\* pipeline that has synthesized and validated has a passing verdict, so
\* its validation-failure branch is never taken.  Checked under Spec;
\* BoxAndSynthesizedValidate does not depend on the state and is evaluated
\* once, where the example starts.
C27_SynthesizedDesignsValidate ==
  /\ (prog = "example" /\ pc = "start") => BoxAndSynthesizedValidate
  /\ mask_params # NoMask => InClampBox(mask_params)
  /\ \A i \in DOMAIN calls : calls[i].fn = "validate_design" => calls[i].ok
  /\ \A i \in DOMAIN output :
       output[i][1] = "error_occurred" => output[i][2] = "exception"

\* A worker run has synthesized the softest corner of the box (size 2000,
\* length 500, width 5), validated it and gone on to the layout.
C27_SoftestCornerValidated ==
  /\ prog = "worker" /\ pc = "laid_out"
  /\ mask_params =
       MaskParameters([proof_mass_size |-> FInt(2000), spring_length |-> FInt(500),
                       spring_width |-> FInt(5)])
  /\ calls[1].fn = "validate_design" /\ calls[1].arg = mask_params /\ calls[1].ok

\* The worker of run t is running: its run method has not returned.
Running(t) == frames[t].pc # "done"

\* The progress values worker t has emitted, in order.
ProgressOf(t) ==
  SelectSeq(frames[t].emitted, LAMBDA signal : signal[1] = "progress_updated")

\* The completion and error signals worker t has emitted, in order.
TerminalOf(t) ==
  SelectSeq(frames[t].emitted,
            LAMBDA signal : signal[1] \in {"design_completed", "error_occurred"})

\* C28: whenever an export can be invoked (its button is enabled), the
\* performance parameters, mask parameters and component the window holds
\* come from the same design run, and so does whatever an export has
\* written.  Checked under SpecWindow; it fails: start_design replaces the
\* performance parameters while the exports stay enabled.
C28_ExportsHoldOneRun ==
  /\ (prog = "window"
        /\ (objects.window.export_params_button \/ objects.window.export_gds_button))
       => objects.window.params_of_run = objects.window.result_of_run
  /\ \A i \in DOMAIN output :
       (prog = "window" /\ output[i].file = "imu_params.txt") =>
         output[i].mask_params
           = calculate_mask_parameters(output[i].performance_params).mask_params

\* While the second run is still under way, a parameter file has been
\* written with the performance parameters of that run and the mask
\* parameters of the first, which differ from those the second run computes.
C28_MixedExportWritten ==
  /\ prog = "window"
  /\ Len(frames) = 2 /\ Running(2)
  /\ objects.window.params_of_run = 2 /\ objects.window.result_of_run = 1
  /\ output # <<>>
  /\ output[1].file = "imu_params.txt"
  /\ output[1].performance_params = frames[2].performance_params
  /\ output[1].mask_params = frames[1].mask_params
  /\ output[1].mask_params
       # calculate_mask_parameters(output[1].performance_params).mask_params

\* The signals of every worker are as run emits them, and no two workers
\* run at once.
WorkersInOrder ==
  prog = "window" =>
    /\ \A t \in DOMAIN frames :
         /\ \E n \in 0..4 : ProgressOf(t) = SubSeq(<<Signal("progress_updated", 20),
                                                     Signal("progress_updated", 40),
                                                     Signal("progress_updated", 60),
                                                     Signal("progress_updated", 100)>>, 1, n)
         /\ Len(TerminalOf(t)) = (IF Running(t) THEN 0 ELSE 1)
         /\ ~Running(t) =>
              frames[t].emitted[Len(frames[t].emitted)] = TerminalOf(t)[1]
         /\ (~Running(t) /\ TerminalOf(t)[1][1] = "design_completed") =>
              Len(ProgressOf(t)) = 4
    /\ Cardinality({t \in DOMAIN frames : Running(t)}) <= 1
    /\ (\E t \in DOMAIN frames : Running(t)) => ~objects.window.design_button

\* C29: every DesignWorker run ends by emitting exactly one of
\* design_completed and error_occurred, as its last signal, its progress
\* values being 20, 40, 60, 100 in that order (a prefix of them when it ends
\* in an error); at most one worker runs at any time; and the design
\* button, disabled by start_design, is eventually enabled again.  Checked
\* under SpecWindow.
C29_RunsEndAndButtonReturns ==
  /\ []WorkersInOrder
  /\ (prog = "window" /\ ~objects.window.design_button)
       ~> objects.window.design_button

\* Two runs have been started one after the other; both have ended with
\* design_completed, and the design button is enabled again.
C29_SecondRunCompleted ==
  /\ prog = "window"
  /\ Len(frames) = 2
  /\ \A t \in 1..2 : ~Running(t) /\ TerminalOf(t)[1][1] = "design_completed"
  /\ calls = <<>>
  /\ objects.window.design_button
  /\ objects.window.result_of_run = 2

\* C30: when validation passes, create_consumer_accelerometer runs all its
\* steps in order, the design metrics included, and prints the final
\* 'design complete', so main returns without the error exit (status 1).
\* Checked under Spec; it fails: the damping-ratio call raises and main
\* exits with status 1.
C30_ExampleEndsWithoutErrorExit ==
  (prog = "example" /\ verdict.ok) =>
    /\ pc # "exit1"
    /\ \A i \in DOMAIN output : output[i] # Signal("print", "error")

\* The example has validated its design, written the GDS file and printed
\* the metrics up to the pull-in voltage; then the error is printed, the
\* exit status is 1 and 'design complete' has not been printed.
C30_MetricsRaiseAfterExport ==
  /\ prog = "example" /\ pc = "exit1"
  /\ verdict.ok
  /\ component # NoComponent
  /\ \E i \in DOMAIN output : output[i] = Signal("print", "GDS file saved")
  /\ \E i \in DOMAIN output : output[i] = Signal("print", "pull-in voltage")
  /\ output[Len(output)] = Signal("print", "error")
  /\ \A i \in DOMAIN output : output[i] # Signal("print", "design complete")

====
